---- MODULE Spec2Model ----
(***************************************************************************)
(* Model of src/large_file_handler.py.                                     *)
(*                                                                         *)
(* ExcelMetadataExtractor._extract_sheet_metadata and _infer_data_type:    *)
(* tiered sampling strategy selection, the single-pass row sampling loop,  *)
(* the per-column accumulators and their finalization (Spec, SpecInfer).   *)
(*                                                                         *)
(* LargeFileAnalyzer.__init__, extract_and_save_metadata, load_metadata    *)
(* and ExcelMetadataExtractor.extract_metadata, save_metadata: one         *)
(* analyzer working through a workbook of several sheets, with a progress  *)
(* callback that may raise (SpecRun).                                      *)
(*                                                                         *)
(* A string is a sequence of one-character strings, so that str(v)[:100]   *)
(* is a real truncation.  A cell value is a record [kind, n, s]: kind is   *)
(* the Python type of the value openpyxl returned, n its number (int,      *)
(* bool), s its text (str) or printed form (float, datetime, time).        *)
(***************************************************************************)
EXTENDS Integers, Sequences, FiniteSets, TLC

VARIABLES
    sheet,            \* the worksheet being analysed (input; never changes)
    chunk_size,       \* self.chunk_size
    pc,               \* position in _extract_sheet_metadata
    headers,          \* headers
    sample_size,      \* sample_size
    step,             \* step
    column_metadata,  \* column_metadata
    i,                \* loop variable of the sampling loop
    rows_sampled,     \* rows_sampled
    reads,            \* history: row_idx of every iter_rows call, in call order
    nonnull_seen,     \* history: per column, the non-null values met in sampled rows
    sheet_metadata,   \* the returned dictionary (NoResult before the return)
    last_progress_report, \* last_progress_report
    callback,         \* event_callback: given or not, and which invocation raises
    events,           \* history: the events passed to event_callback, in order
    error,            \* the exception that left the call ("none" while running)
    workbook,         \* the sheets of the file, in wb.sheetnames order (input)
    file_state,       \* "ok", "missing" or "corrupt" (input)
    run_pc,           \* position in LargeFileAnalyzer / extract_metadata
    wb_handle,        \* wb: how often load_workbook ran, and whether wb is open
    sheet_idx,        \* sheets of wb.sheetnames already iterated over
    metadata,         \* the local dictionary `metadata` of extract_metadata
    extractor_metadata, \* ExcelMetadataExtractor.metadata
    analyzer_metadata,  \* LargeFileAnalyzer.metadata
    fs,               \* file system: directories made and files written
    writes,           \* history: every open(path, 'w'), with the call it was made in
    calls,            \* calls of extract_and_save_metadata started so far
    previous,         \* history: what the call before this one returned
    run_id,           \* run_id of the analyzer at work
    parked,           \* the state of the other analyzer while this one is at work
    solo,             \* history: how the run ended when it was executed alone
    yielded           \* history: the blocks get_chunk_iterator has yielded

sheetvars == <<sheet, chunk_size, pc, headers, sample_size, step, column_metadata,
               i, rows_sampled, reads, nonnull_seen, sheet_metadata,
               last_progress_report>>

pairvars == <<run_id, parked, solo, yielded>>

runvars == <<workbook, file_state, run_pc, wb_handle, sheet_idx, metadata,
             extractor_metadata, analyzer_metadata, fs, writes, calls, previous,
             pairvars>>

vars == <<sheetvars, callback, events, error, runvars>>

----------------------------------------------------------------------------
(* Program constants *)

MASSIVE_ROWS == 100000
LARGE_ROWS == 10000
MASSIVE_SAMPLE == 100
LARGE_SAMPLE == 200
MAX_STORED == 100
STR_CUT == 100
KEEP_SAMPLES == 5
KEEP_UNIQUE == 10
DEFAULT_CHUNK_SIZE == 1000

(* Bounds of the model *)

MaxCol == 2
MaxMissing == 1
MaxSmallRow == 4
MaxSmallChunk == 3

Min(a, b) == IF a < b THEN a ELSE b
Max(a, b) == IF a > b THEN a ELSE b

----------------------------------------------------------------------------
(* Strings and values *)

DigitChars == <<"0", "1", "2", "3", "4", "5", "6", "7", "8", "9">>

RECURSIVE NatStr(_)
NatStr(n) ==
    IF n < 10 THEN <<DigitChars[n + 1]>>
    ELSE NatStr(n \div 10) \o <<DigitChars[(n % 10) + 1]>>

\* str(n) of a Python int
IntStr(n) == IF n < 0 THEN <<"-">> \o NatStr(0 - n) ELSE NatStr(n)

\* s[:k]
Cut(s, k) == SubSeq(s, 1, Min(Len(s), k))

None == [kind |-> "NoneType", n |-> 0, s |-> <<>>]
IntVal(k) == [kind |-> "int", n |-> k, s |-> <<>>]
BoolVal(b) == [kind |-> "bool", n |-> IF b THEN 1 ELSE 0, s |-> <<>>]
FloatVal(txt) == [kind |-> "float", n |-> 0, s |-> txt]
DateVal(txt) == [kind |-> "datetime", n |-> 0, s |-> txt]
TimeVal(txt) == [kind |-> "time", n |-> 0, s |-> txt]
StrVal(txt) == [kind |-> "str", n |-> 0, s |-> txt]

\* str(value)
PyStr(v) ==
    CASE v.kind = "int" -> IntStr(v.n)
      [] v.kind = "bool" -> IF v.n = 1 THEN <<"T", "r", "u", "e">>
                            ELSE <<"F", "a", "l", "s", "e">>
      [] v.kind = "NoneType" -> <<"N", "o", "n", "e">>
      [] OTHER -> v.s

\* isinstance(value, cls): bool is a subclass of int
IsInstance(v, cls) ==
    CASE cls = "int" -> v.kind \in {"int", "bool"}
      [] cls = "float" -> v.kind = "float"
      [] cls = "datetime" -> v.kind = "datetime"
      [] cls = "bool" -> v.kind = "bool"
      [] OTHER -> FALSE

----------------------------------------------------------------------------
(* The workbook: what openpyxl returns for the sheet *)

\* A text of STR_CUT + 1 characters; two of them differ in the last one only.
LongText(tag) == [k \in 1..(STR_CUT + 1) |-> IF k <= STR_CUT THEN "x" ELSE tag]

\* The value a cell generator puts in row r.
Gen(g, r) ==
    CASE g = "none" -> None
      [] g = "id" -> IntVal(r)
      [] g = "one" -> IntVal(1)
      [] g = "price" -> FloatVal(<<"1", ".", "5">>)
      [] g = "day" -> DateVal(<<"2", "0", "2", "4", "-", "0", "1", "-", "0", "1",
                               " ", "0", "0", ":", "0", "0", ":", "0", "0">>)
      [] g = "hour" -> TimeVal(<<"1", "2", ":", "0", "0", ":", "0", "0">>)
      [] g = "flag" -> BoolVal(r % 2 = 0)
      [] g = "word" -> StrVal(<<"a">>)
      [] g = "numeral" -> StrVal(<<"1">>)
      [] g = "long" -> StrVal(LongText(IF r % 2 = 0 THEN "a" ELSE "b"))

\* A column of the sheet: its header cell, and its data cells, which cycle
\* through `early` in rows below `switch` and through `late` from there on.
ColumnPlans == <<
    [header |-> StrVal(<<"i", "d">>), early |-> <<"id">>, switch |-> 0, late |-> <<"id">>],
    [header |-> None, early |-> <<"none">>, switch |-> 0, late |-> <<"none">>],
    [header |-> IntVal(2024), early |-> <<"id">>, switch |-> MAX_STORED + 2, late |-> <<"word">>],
    [header |-> StrVal(<<"m", "i", "x">>), early |-> <<"one", "numeral">>, switch |-> 0, late |-> <<"one", "numeral">>],
    [header |-> StrVal(<<"w", "h", "e", "n">>), early |-> <<"word", "day">>, switch |-> 0, late |-> <<"hour", "day">>],
    [header |-> None, early |-> <<"flag">>, switch |-> 0, late |-> <<"flag", "word", "flag">>],
    [header |-> StrVal(<<"a", "m", "o", "u", "n", "t">>), early |-> <<"none", "price">>, switch |-> 0, late |-> <<"none", "price">>],
    [header |-> StrVal(LongText("h")), early |-> <<"long">>, switch |-> 0, late |-> <<"long", "none", "day", "one">>]
>>

NumPlans == Len(ColumnPlans)

\* Column c of sheet sh follows the plans in rotation from sh.first_plan.
PlanOf(sh, c) == ColumnPlans[((sh.first_plan + c - 2) % NumPlans) + 1]

CellValue(sh, r, c) ==
    LET plan == PlanOf(sh, c)
        cyc == IF r < plan.switch THEN plan.early ELSE plan.late
    IN Gen(cyc[((r - 2) % Len(cyc)) + 1], r)

\* sheet.cell(row=1, column=c).value
HeaderCell(sh, c) == IF sh.last_row >= 1 THEN PlanOf(sh, c).header ELSE None

\* list(sheet.iter_rows(min_row=r, max_row=r, min_col=1, max_col=max_col,
\* values_only=True)): no row when r lies beyond the last row stored in the
\* file, else one row of max_col values.
IterRows(sh, r) ==
    IF r > sh.last_row THEN <<>>
    ELSE <<[c \in 1..sh.max_column |-> CellValue(sh, r, c)]>>

\* wb.sheetnames[k - 1] of a workbook whose sheets kept their default names
SheetName(k) == <<"S", "h", "e", "e", "t">> \o IntStr(k)

MaxRowChoices ==
    (0..MaxSmallRow) \cup {50, LARGE_ROWS, LARGE_ROWS + 1, MASSIVE_ROWS, MASSIVE_ROWS + 1}

ChunkSizes ==
    (0..MaxSmallChunk) \cup {MASSIVE_SAMPLE, MASSIVE_SAMPLE + 1, LARGE_SAMPLE,
                             LARGE_SAMPLE + 1, DEFAULT_CHUNK_SIZE}

\* The sheets analysed: dimensions max_row x max_column as the file declares
\* them, the last `miss` declared rows not stored in the file.
AllSheets ==
    {[max_row |-> mr, max_column |-> mc, last_row |-> Max(0, mr - miss), first_plan |-> fp,
      name |-> SheetName(1)] :
        mr \in MaxRowChoices, mc \in 0..MaxCol, miss \in 0..MaxMissing, fp \in 1..NumPlans}

Sheets == {sh \in AllSheets : sh.max_column = 0 => sh.first_plan = 1}

----------------------------------------------------------------------------
(* _get_excel_column_letter *)

Alphabet == <<"A", "B", "C", "D", "E", "F", "G", "H", "I", "J", "K", "L", "M",
              "N", "O", "P", "Q", "R", "S", "T", "U", "V", "W", "X", "Y", "Z">>

\* The letters computed without the shift to zero-based digits.
RECURSIVE ExcelColumnLetterUnshifted(_)
ExcelColumnLetterUnshifted(col_idx) ==
    IF col_idx > 0
    THEN ExcelColumnLetterUnshifted(col_idx \div 26) \o <<Alphabet[(col_idx % 26) + 1]>>
    ELSE <<>>

RECURSIVE ExcelColumnLetter(_)
ExcelColumnLetter(col_idx) ==
    IF col_idx > 0
    THEN ExcelColumnLetter((col_idx - 1) \div 26) \o <<Alphabet[((col_idx - 1) % 26) + 1]>>
    ELSE <<>>

----------------------------------------------------------------------------
(* _infer_data_type *)

TypeOrder == <<"numeric", "date", "text", "boolean">>

\* The branch of the isinstance chain a value takes.
Classify(value) ==
    IF IsInstance(value, "int") \/ IsInstance(value, "float") THEN "numeric"
    ELSE IF IsInstance(value, "datetime") THEN "date"
    ELSE IF IsInstance(value, "bool") THEN "boolean"
    ELSE "text"

\* type_counts after the loop over values
TypeCounts(values) ==
    [t \in {TypeOrder[k] : k \in 1..Len(TypeOrder)} |->
        Cardinality({k \in 1..Len(values) : Classify(values[k]) = t})]

\* max(type_counts, key=type_counts.get): the keys are visited in insertion
\* order and a later key replaces the best one only when strictly greater.
\* PyMaxKey with >= for >: the last of the tied keys wins.
RECURSIVE PyMaxKeyLast(_, _, _)
PyMaxKeyLast(counts, k, best) ==
    IF k > Len(TypeOrder) THEN best
    ELSE PyMaxKeyLast(counts, k + 1,
                      IF counts[TypeOrder[k]] >= counts[best] THEN TypeOrder[k] ELSE best)

RECURSIVE PyMaxKey(_, _, _)
PyMaxKey(counts, k, best) ==
    IF k > Len(TypeOrder) THEN best
    ELSE PyMaxKey(counts, k + 1,
                  IF counts[TypeOrder[k]] > counts[best] THEN TypeOrder[k] ELSE best)

\* InferDataType without the test for an empty list.
InferDataTypeNoEmptyCheck(values) == PyMaxKey(TypeCounts(values), 2, TypeOrder[1])

InferDataType(values) ==
    IF values = <<>> THEN "empty"
    ELSE PyMaxKey(TypeCounts(values), 2, TypeOrder[1])

----------------------------------------------------------------------------
(* _extract_sheet_metadata *)

NoResult == [name |-> "none"]

\* SamplingStrategy with the caps of the massive and the large tier swapped.
SamplingStrategySwappedCaps(max_row, cs) ==
    IF max_row > MASSIVE_ROWS
    THEN [raises |-> FALSE, sample_size |-> Min(LARGE_SAMPLE, cs), step |-> 1]
    ELSE IF max_row > LARGE_ROWS
    THEN IF Min(MASSIVE_SAMPLE, cs) = 0
         THEN [raises |-> TRUE, sample_size |-> 0, step |-> 0]
         ELSE [raises |-> FALSE, sample_size |-> Min(MASSIVE_SAMPLE, cs),
               step |-> Max(1, (max_row - 1) \div Min(MASSIVE_SAMPLE, cs))]
    ELSE [raises |-> FALSE, sample_size |-> Min(cs, max_row - 1), step |-> 1]

\* SamplingStrategy with the large tier's step taken from max_row, header included.
SamplingStrategyStepCountsHeader(max_row, cs) ==
    IF max_row > MASSIVE_ROWS
    THEN [raises |-> FALSE, sample_size |-> Min(MASSIVE_SAMPLE, cs), step |-> 1]
    ELSE IF max_row > LARGE_ROWS
    THEN IF Min(LARGE_SAMPLE, cs) = 0
         THEN [raises |-> TRUE, sample_size |-> 0, step |-> 0]
         ELSE [raises |-> FALSE, sample_size |-> Min(LARGE_SAMPLE, cs),
               step |-> Max(1, max_row \div Min(LARGE_SAMPLE, cs))]
    ELSE [raises |-> FALSE, sample_size |-> Min(cs, max_row - 1), step |-> 1]

\* SamplingStrategy with the small tier's sample counting the header row.
SamplingStrategySmallCountsHeader(max_row, cs) ==
    IF max_row > MASSIVE_ROWS
    THEN [raises |-> FALSE, sample_size |-> Min(MASSIVE_SAMPLE, cs), step |-> 1]
    ELSE IF max_row > LARGE_ROWS
    THEN IF Min(LARGE_SAMPLE, cs) = 0
         THEN [raises |-> TRUE, sample_size |-> 0, step |-> 0]
         ELSE [raises |-> FALSE, sample_size |-> Min(LARGE_SAMPLE, cs),
               step |-> Max(1, (max_row - 1) \div Min(LARGE_SAMPLE, cs))]
    ELSE [raises |-> FALSE, sample_size |-> Min(cs, max_row), step |-> 1]

\* SamplingStrategy with the small tier's sample not capped by chunk_size.
SamplingStrategySmallUncapped(max_row, cs) ==
    IF max_row > MASSIVE_ROWS
    THEN [raises |-> FALSE, sample_size |-> Min(MASSIVE_SAMPLE, cs), step |-> 1]
    ELSE IF max_row > LARGE_ROWS
    THEN IF Min(LARGE_SAMPLE, cs) = 0
         THEN [raises |-> TRUE, sample_size |-> 0, step |-> 0]
         ELSE [raises |-> FALSE, sample_size |-> Min(LARGE_SAMPLE, cs),
               step |-> Max(1, (max_row - 1) \div Min(LARGE_SAMPLE, cs))]
    ELSE [raises |-> FALSE, sample_size |-> max_row - 1, step |-> 1]

\* The sampling tier: sample_size and step, or the ZeroDivisionError of
\* (max_row - 1) // sample_size.
SamplingStrategy(max_row, cs) ==
    IF max_row > MASSIVE_ROWS
    THEN [raises |-> FALSE, sample_size |-> Min(MASSIVE_SAMPLE, cs), step |-> 1]
    ELSE IF max_row > LARGE_ROWS
    THEN IF Min(LARGE_SAMPLE, cs) = 0
         THEN [raises |-> TRUE, sample_size |-> 0, step |-> 0]
         ELSE [raises |-> FALSE, sample_size |-> Min(LARGE_SAMPLE, cs),
               step |-> Max(1, (max_row - 1) \div Min(LARGE_SAMPLE, cs))]
    ELSE [raises |-> FALSE, sample_size |-> Min(cs, max_row - 1), step |-> 1]

\* RowIdx starting at the header row.
RowIdxFromHeader(k) == 1 + (k * step)

\* row_idx of iteration k
RowIdx(k) == 2 + (k * step)

HeaderName(sh, c) ==
    IF HeaderCell(sh, c) # None THEN PyStr(HeaderCell(sh, c))
    ELSE <<"C", "o", "l", "u", "m", "n", "_">> \o IntStr(c)

NewColumn(header, col_idx) ==
    [name |-> header,
     index |-> col_idx - 1,
     excel_column |-> ExcelColumnLetter(col_idx),
     data_type |-> "unknown",
     sample_values |-> <<>>,
     null_count |-> 0,
     unique_values_sample |-> {},
     unique_values_count |-> 0,
     rows_sampled |-> 0,
     sampling_step |-> 0]

\* (unique_values_count and sampling_step are keys the code adds on
\* finalization; they are 0 until then.)

\* Accumulate with the else attached to the inner if.
AccumulateDanglingElse(col_meta, value) ==
    IF value # None
    THEN IF Len(col_meta.sample_values) < MAX_STORED
         THEN [col_meta EXCEPT
                 !.sample_values = Append(@, value),
                 !.unique_values_sample = @ \cup {Cut(PyStr(value), STR_CUT)}]
         ELSE [col_meta EXCEPT
                 !.unique_values_sample = @ \cup {Cut(PyStr(value), STR_CUT)},
                 !.null_count = @ + 1]
    ELSE col_meta

\* Accumulate with the unique set fed before the test for None.
AccumulateAddsNone(col_meta, value) ==
    IF value # None
    THEN [col_meta EXCEPT
            !.sample_values = IF Len(@) < MAX_STORED THEN Append(@, value) ELSE @,
            !.unique_values_sample = @ \cup {Cut(PyStr(value), STR_CUT)}]
    ELSE [col_meta EXCEPT
            !.unique_values_sample = @ \cup {Cut(PyStr(value), STR_CUT)},
            !.null_count = @ + 1]

\* Accumulate with the unique set fed only while samples are still stored.
AccumulateCapsUnique(col_meta, value) ==
    IF value # None
    THEN IF Len(col_meta.sample_values) < MAX_STORED
         THEN [col_meta EXCEPT
                 !.sample_values = Append(@, value),
                 !.unique_values_sample = @ \cup {Cut(PyStr(value), STR_CUT)}]
         ELSE col_meta
    ELSE [col_meta EXCEPT !.null_count = @ + 1]

\* Accumulate without the limit on the stored samples.
AccumulateNoCap(col_meta, value) ==
    IF value # None
    THEN [col_meta EXCEPT
            !.sample_values = Append(@, value),
            !.unique_values_sample = @ \cup {Cut(PyStr(value), STR_CUT)}]
    ELSE [col_meta EXCEPT !.null_count = @ + 1]

\* The body of the loop over one row's values for column col_meta.
Accumulate(col_meta, value) ==
    IF value # None
    THEN [col_meta EXCEPT
            !.sample_values = IF Len(@) < MAX_STORED THEN Append(@, value) ELSE @,
            !.unique_values_sample = @ \cup {Cut(PyStr(value), STR_CUT)}]
    ELSE [col_meta EXCEPT !.null_count = @ + 1]

ProcessRow(cm, row_values) ==
    [c \in 1..Len(cm) |->
        IF c <= Len(row_values) THEN Accumulate(cm[c], row_values[c]) ELSE cm[c]]

\* The first k elements of list(U) for a set U; Python fixes no order: the
\* model takes one of two enumerations (rotated = the other one).
RECURSIVE ListPrefix(_, _)
ListPrefix(U, k) ==
    IF k = 0 \/ U = {} THEN <<>>
    ELSE LET x == CHOOSE y \in U : TRUE
         IN <<x>> \o ListPrefix(U \ {x}, k - 1)

ListOfSetPrefix(U, k, rotated) ==
    IF rotated /\ Cardinality(U) > k
    THEN ListPrefix(U \ {CHOOSE y \in U : TRUE}, k)
    ELSE ListPrefix(U, k)

\* Variant of FinalizeColumn that keeps every stored sample value.
FinalizeColumnKeepsAll(col_meta, rotated) ==
    [col_meta EXCEPT
        !.data_type = InferDataType(col_meta.sample_values),
        !.sample_values =
            [k \in 1..Len(col_meta.sample_values) |->
                StrVal(Cut(PyStr(col_meta.sample_values[k]), STR_CUT))],
        !.unique_values_count = Cardinality(col_meta.unique_values_sample),
        !.unique_values_sample = ListOfSetPrefix(col_meta.unique_values_sample, KEEP_UNIQUE, rotated),
        !.rows_sampled = rows_sampled,
        !.sampling_step = step]

FinalizeColumn(col_meta, rotated) ==
    [col_meta EXCEPT
        !.data_type = InferDataType(col_meta.sample_values),
        !.sample_values =
            [k \in 1..Min(KEEP_SAMPLES, Len(col_meta.sample_values)) |->
                StrVal(Cut(PyStr(col_meta.sample_values[k]), STR_CUT))],
        !.unique_values_count = Cardinality(col_meta.unique_values_sample),
        !.unique_values_sample = ListOfSetPrefix(col_meta.unique_values_sample, KEEP_UNIQUE, rotated),
        !.rows_sampled = rows_sampled,
        !.sampling_step = step]

SamplingStrategyText(size, stp) ==
    <<"S", "a", "m", "p", "l", "e", "d", " ">> \o IntStr(size)
        \o <<" ", "r", "o", "w", "s", " ", "w", "i", "t", "h", " ", "s", "t", "e", "p", "=">>
        \o IntStr(stp)

DataRange(max_col, max_row) ==
    <<"A", "1", ":">> \o ExcelColumnLetter(max_col) \o IntStr(max_row)

----------------------------------------------------------------------------
(* The progress callback *)

NoCallback == [given |-> FALSE, fail_at |-> 0]

\* The keys of every dictionary passed to event_callback.
EventKeys == {"timestamp", "type", "content", "icon"}

\* The dictionary passed to event_callback: which message it is, the numbers
\* formatted into its content, and its keys (the timestamp is left out).
Event(kind, a, b) == [kind |-> kind, a |-> a, b |-> b, keys |-> EventKeys]

\* `if event_callback: event_callback({...})`
Emit(ev) == IF callback.given THEN Append(events, ev) ELSE events

\* The invocation being made now is the one in which the callback raises.
CallbackRaises == callback.given /\ callback.fail_at = Len(events) + 1

\* int((i / sample_size) * 100) in double arithmetic: the floor of
\* 100 * i / sample_size for every multiple i of 100 below a sample_size of
\* less than 10000, except that (2900 / 5000) * 100 is 57.99999999999999.
PyPercent(k, size) ==
    IF k = 2900 /\ size = 5000 THEN 57 ELSE (k * 100) \div size

\* Line 192: a progress event is due in this iteration.
ProgressDue == callback.given /\ sample_size > 100 /\ (i - last_progress_report) >= 100

----------------------------------------------------------------------------
(* The state outside _extract_sheet_metadata *)

NoDict == [py |-> "None"]
EmptyDict == [py |-> "dict"]
NoHandle == [opens |-> 0, open |-> FALSE]
NoFiles == [dirs |-> {}, files |-> {}]

\* _extract_sheet_metadata alone: no analyzer, nothing outside the call.
NoRun ==
    /\ workbook = <<>>
    /\ file_state = "ok"
    /\ run_pc = "sheet_only"
    /\ wb_handle = NoHandle
    /\ sheet_idx = 0
    /\ metadata = NoDict
    /\ extractor_metadata = EmptyDict
    /\ analyzer_metadata = NoDict
    /\ fs = NoFiles
    /\ writes = <<>>
    /\ calls = 0
    /\ previous = NoDict
    /\ run_id = <<>>
    /\ parked = NoDict
    /\ solo = NoDict
    /\ yielded = <<>>

----------------------------------------------------------------------------
(* The steps of _extract_sheet_metadata *)

Init ==
    /\ sheet \in Sheets
    /\ chunk_size \in ChunkSizes
    /\ pc = "headers"
    /\ headers = <<>>
    /\ sample_size = 0
    /\ step = 0
    /\ column_metadata = <<>>
    /\ i = 0
    /\ rows_sampled = 0
    /\ reads = <<>>
    /\ nonnull_seen = <<>>
    /\ sheet_metadata = NoResult
    /\ last_progress_report = 0
    /\ callback = NoCallback
    /\ events = <<>>
    /\ error = "none"
    /\ NoRun

\* Lines 115-133: dimensions, the dimensions event, and the header row.
ReadHeaders ==
    /\ pc = "headers"
    /\ events' = Emit(Event("dimensions", sheet.max_row, sheet.max_column))
    /\ IF CallbackRaises
       THEN /\ pc' = "raised"
            /\ error' = "CallbackError"
            /\ UNCHANGED headers
       ELSE /\ headers' = [c \in 1..sheet.max_column |-> HeaderName(sheet, c)]
            /\ pc' = "select"
            /\ UNCHANGED error
    /\ UNCHANGED <<sheet, chunk_size, sample_size, step, column_metadata, i,
                   rows_sampled, reads, nonnull_seen, sheet_metadata,
                   last_progress_report>>
    /\ UNCHANGED <<callback, runvars>>

\* The event of lines 142-147 (massive tier) or 153-158 (large tier).
TierEvent(max_row, size, stp) ==
    IF max_row > MASSIVE_ROWS THEN Event("massive", size, 0) ELSE Event("large", size, stp)

\* Lines 137-182: the tier is chosen and the column structures initialised.
SelectStrategy ==
    /\ pc = "select"
    /\ LET s == SamplingStrategy(sheet.max_row, chunk_size) IN
        /\ ~s.raises
        /\ sample_size' = s.sample_size
        /\ step' = s.step
        /\ events' = IF sheet.max_row > LARGE_ROWS
                     THEN Emit(TierEvent(sheet.max_row, s.sample_size, s.step))
                     ELSE events
    /\ IF sheet.max_row > LARGE_ROWS /\ CallbackRaises
       THEN /\ pc' = "raised"
            /\ error' = "CallbackError"
            /\ UNCHANGED <<column_metadata, i, rows_sampled, nonnull_seen,
                           last_progress_report>>
       ELSE /\ column_metadata' = [c \in 1..Len(headers) |-> NewColumn(headers[c], c)]
            /\ i' = 0
            /\ rows_sampled' = 0
            /\ last_progress_report' = 0
            /\ nonnull_seen' = [c \in 1..Len(headers) |-> 0]
            /\ pc' = "sampling"
            /\ UNCHANGED error
    /\ UNCHANGED <<sheet, chunk_size, headers, reads, sheet_metadata>>
    /\ UNCHANGED <<callback, runvars>>

\* Line 152 with sample_size == 0: ZeroDivisionError leaves the function.
SelectStrategyRaises ==
    /\ pc = "select"
    /\ SamplingStrategy(sheet.max_row, chunk_size).raises
    /\ pc' = "raised"
    /\ error' = "ZeroDivisionError"
    /\ UNCHANGED <<sheet, chunk_size, headers, sample_size, step, column_metadata,
                   i, rows_sampled, reads, nonnull_seen, sheet_metadata,
                   last_progress_report>>
    /\ UNCHANGED <<callback, events, runvars>>

\* Lines 189-198: the periodic progress event of an iteration.
ReportProgress ==
    /\ events' = IF ProgressDue
                 THEN Emit(Event("progress", PyPercent(i, sample_size), i))
                 ELSE events
    /\ last_progress_report' =
          IF ProgressDue /\ ~CallbackRaises THEN i ELSE last_progress_report

\* SampleRow in which an iteration that reports progress goes on to the next
\* row without reading this one.
SampleRowSkipsWhenReporting ==
    /\ pc = "sampling"
    /\ i < sample_size
    /\ RowIdx(i) <= sheet.max_row
    /\ IterRows(sheet, RowIdx(i)) # <<>>
    /\ ReportProgress
    /\ IF ProgressDue /\ CallbackRaises
       THEN /\ pc' = "raised"
            /\ error' = "CallbackError"
            /\ UNCHANGED <<column_metadata, nonnull_seen, rows_sampled, reads, i>>
       ELSE IF ProgressDue
       THEN /\ i' = i + 1
            /\ UNCHANGED <<column_metadata, nonnull_seen, rows_sampled, reads, pc, error>>
       ELSE /\ LET row_cells == IterRows(sheet, RowIdx(i)) IN
                /\ column_metadata' = ProcessRow(column_metadata, row_cells[1])
                /\ nonnull_seen' = [c \in 1..Len(nonnull_seen) |->
                                       IF row_cells[1][c] # None THEN nonnull_seen[c] + 1
                                       ELSE nonnull_seen[c]]
            /\ rows_sampled' = rows_sampled + 1
            /\ reads' = Append(reads, RowIdx(i))
            /\ i' = i + 1
            /\ UNCHANGED <<pc, error>>
    /\ UNCHANGED <<sheet, chunk_size, headers, sample_size, step, sheet_metadata>>
    /\ UNCHANGED <<callback, runvars>>

\* One iteration of the loop of line 184 whose read returns a row.
SampleRow ==
    /\ pc = "sampling"
    /\ i < sample_size
    /\ RowIdx(i) <= sheet.max_row
    /\ IterRows(sheet, RowIdx(i)) # <<>>
    /\ ReportProgress
    /\ IF ProgressDue /\ CallbackRaises
       THEN /\ pc' = "raised"
            /\ error' = "CallbackError"
            /\ UNCHANGED <<column_metadata, nonnull_seen, rows_sampled, reads, i>>
       ELSE /\ LET row_cells == IterRows(sheet, RowIdx(i)) IN
                /\ column_metadata' = ProcessRow(column_metadata, row_cells[1])
                /\ nonnull_seen' = [c \in 1..Len(nonnull_seen) |->
                                       IF row_cells[1][c] # None THEN nonnull_seen[c] + 1
                                       ELSE nonnull_seen[c]]
            /\ rows_sampled' = rows_sampled + 1
            /\ reads' = Append(reads, RowIdx(i))
            /\ i' = i + 1
            /\ UNCHANGED <<pc, error>>
    /\ UNCHANGED <<sheet, chunk_size, headers, sample_size, step, sheet_metadata>>
    /\ UNCHANGED <<callback, runvars>>

\* One iteration whose read returns no row (lines 202-203).
SkipAbsentRow ==
    /\ pc = "sampling"
    /\ i < sample_size
    /\ RowIdx(i) <= sheet.max_row
    /\ IterRows(sheet, RowIdx(i)) = <<>>
    /\ ReportProgress
    /\ IF ProgressDue /\ CallbackRaises
       THEN /\ pc' = "raised"
            /\ error' = "CallbackError"
            /\ UNCHANGED <<reads, i>>
       ELSE /\ reads' = Append(reads, RowIdx(i))
            /\ i' = i + 1
            /\ UNCHANGED <<pc, error>>
    /\ UNCHANGED <<sheet, chunk_size, headers, sample_size, step, column_metadata,
                   rows_sampled, nonnull_seen, sheet_metadata>>
    /\ UNCHANGED <<callback, runvars>>

\* The loop ends: range(sample_size) is exhausted, or the break of line 187.
EndSampling ==
    /\ pc = "sampling"
    /\ (i >= sample_size \/ RowIdx(i) > sheet.max_row)
    /\ pc' = "finalize"
    /\ UNCHANGED <<sheet, chunk_size, headers, sample_size, step, column_metadata,
                   i, rows_sampled, reads, nonnull_seen, sheet_metadata,
                   last_progress_report>>
    /\ UNCHANGED <<callback, events, error, runvars>>

\* Lines 224-241: the columns are finalised and the sheet metadata returned.
Finalize ==
    /\ pc = "finalize"
    /\ \E rotated \in BOOLEAN :
        /\ column_metadata' =
              [c \in 1..Len(column_metadata) |-> FinalizeColumn(column_metadata[c], rotated)]
        /\ sheet_metadata' =
              [name |-> sheet.name,
               estimated_rows |-> sheet.max_row - 1,
               columns |-> column_metadata',
               has_header |-> TRUE,
               data_range |-> DataRange(sheet.max_column, sheet.max_row),
               sampling_strategy |-> SamplingStrategyText(sample_size, step)]
    /\ pc' = "done"
    /\ UNCHANGED <<sheet, chunk_size, headers, sample_size, step, i, rows_sampled,
                   reads, nonnull_seen, last_progress_report>>
    /\ UNCHANGED <<callback, events, error, runvars>>

Next ==
    \/ ReadHeaders
    \/ SelectStrategy
    \/ SelectStrategyRaises
    \/ SampleRow
    \/ SkipAbsentRow
    \/ EndSampling
    \/ Finalize

Spec == Init /\ [][Next]_vars

----------------------------------------------------------------------------
(* _infer_data_type on its own: every list of at most MaxInferLen values *)

MaxInferLen == 3

InferValues == {Gen(g, 2) : g \in {"one", "price", "day", "hour", "flag", "word"}}

InferLists == UNION {[1..n -> InferValues] : n \in 0..MaxInferLen}

InitInfer ==
    /\ sheet = [max_row |-> 1, max_column |-> 1, last_row |-> 1, first_plan |-> 1,
                name |-> SheetName(1)]
    /\ chunk_size = DEFAULT_CHUNK_SIZE
    /\ pc = "infer"
    /\ headers = <<HeaderName(sheet, 1)>>
    /\ sample_size = 0
    /\ step = 1
    /\ \E values \in InferLists :
        column_metadata = <<[NewColumn(headers[1], 1) EXCEPT !.sample_values = values]>>
    /\ i = 0
    /\ rows_sampled = 0
    /\ reads = <<>>
    /\ nonnull_seen = <<0>>
    /\ sheet_metadata = NoResult
    /\ last_progress_report = 0
    /\ callback = NoCallback
    /\ events = <<>>
    /\ error = "none"
    /\ NoRun

\* Line 225 alone: data_type = _infer_data_type(sample_values).
ApplyInfer ==
    /\ pc = "infer"
    /\ column_metadata' =
          [column_metadata EXCEPT
              ![1].data_type = InferDataType(column_metadata[1].sample_values)]
    /\ pc' = "inferred"
    /\ UNCHANGED <<sheet, chunk_size, headers, sample_size, step, i, rows_sampled,
                   reads, nonnull_seen, sheet_metadata, last_progress_report>>
    /\ UNCHANGED <<callback, events, error, runvars>>

NextInfer == ApplyInfer

SpecInfer == InitInfer /\ [][NextInfer]_vars

----------------------------------------------------------------------------
(* json.dump and json.load *)

\* An encoder that writes every number as a string.
JsonTokenDefaultStr(v) ==
    CASE v.kind = "bool" -> [j |-> "literal",
                             text |-> IF v.n = 1 THEN <<"t", "r", "u", "e">>
                                      ELSE <<"f", "a", "l", "s", "e">>]
      [] v.kind = "NoneType" -> [j |-> "literal", text |-> <<"n", "u", "l", "l">>]
      [] OTHER -> [j |-> "string", text |-> PyStr(v)]

\* json.dumps of a scalar: the token written, or the TypeError of a value
\* the encoder does not know (the texts of the model need no escaping).
JsonToken(v) ==
    CASE v.kind = "int" -> [j |-> "number", text |-> IntStr(v.n)]
      [] v.kind = "float" -> [j |-> "number", text |-> v.s]
      [] v.kind = "bool" -> [j |-> "literal",
                             text |-> IF v.n = 1 THEN <<"t", "r", "u", "e">>
                                      ELSE <<"f", "a", "l", "s", "e">>]
      [] v.kind = "NoneType" -> [j |-> "literal", text |-> <<"n", "u", "l", "l">>]
      [] v.kind = "str" -> [j |-> "string", text |-> v.s]
      [] OTHER -> [j |-> "TypeError", text |-> <<>>]

DigitOf(ch) == (CHOOSE d \in 1..10 : DigitChars[d] = ch) - 1

RECURSIVE ParseNat(_)
ParseNat(txt) ==
    IF Len(txt) = 0 THEN 0
    ELSE (ParseNat(SubSeq(txt, 1, Len(txt) - 1)) * 10) + DigitOf(txt[Len(txt)])

\* int(text) of a JSON number without fraction
ParseInt(txt) ==
    IF txt[1] = "-" THEN 0 - ParseNat(SubSeq(txt, 2, Len(txt))) ELSE ParseNat(txt)

\* json.loads of a scalar token
JsonValue(tok) ==
    CASE tok.j = "string" -> StrVal(tok.text)
      [] tok.j = "literal" ->
            IF tok.text = <<"n", "u", "l", "l">> THEN None
            ELSE BoolVal(tok.text = <<"t", "r", "u", "e">>)
      [] tok.j = "number" ->
            IF \E k \in 1..Len(tok.text) : tok.text[k] = "."
            THEN FloatVal(tok.text)
            ELSE IntVal(ParseInt(tok.text))

DumpColumn(col) ==
    [name |-> JsonToken(StrVal(col.name)),
     index |-> JsonToken(IntVal(col.index)),
     excel_column |-> JsonToken(StrVal(col.excel_column)),
     data_type |-> JsonToken(StrVal(<<col.data_type>>)),
     sample_values |-> [k \in 1..Len(col.sample_values) |-> JsonToken(col.sample_values[k])],
     null_count |-> JsonToken(IntVal(col.null_count)),
     unique_values_sample |->
         [k \in 1..Len(col.unique_values_sample) |->
             JsonToken(StrVal(col.unique_values_sample[k]))],
     rows_sampled |-> JsonToken(IntVal(col.rows_sampled)),
     unique_values_count |-> JsonToken(IntVal(col.unique_values_count)),
     sampling_step |-> JsonToken(IntVal(col.sampling_step))]

LoadColumn(doc) ==
    [name |-> JsonValue(doc.name).s,
     index |-> JsonValue(doc.index).n,
     excel_column |-> JsonValue(doc.excel_column).s,
     data_type |-> JsonValue(doc.data_type).s[1],
     sample_values |-> [k \in 1..Len(doc.sample_values) |-> JsonValue(doc.sample_values[k])],
     null_count |-> JsonValue(doc.null_count).n,
     unique_values_sample |->
         [k \in 1..Len(doc.unique_values_sample) |-> JsonValue(doc.unique_values_sample[k]).s],
     rows_sampled |-> JsonValue(doc.rows_sampled).n,
     unique_values_count |-> JsonValue(doc.unique_values_count).n,
     sampling_step |-> JsonValue(doc.sampling_step).n]

DumpSheet(sh) ==
    [name |-> JsonToken(StrVal(sh.name)),
     estimated_rows |-> JsonToken(IntVal(sh.estimated_rows)),
     columns |-> [c \in 1..Len(sh.columns) |-> DumpColumn(sh.columns[c])],
     has_header |-> JsonToken(BoolVal(sh.has_header)),
     data_range |-> JsonToken(StrVal(sh.data_range)),
     sampling_strategy |-> JsonToken(StrVal(sh.sampling_strategy))]

LoadSheet(doc) ==
    [name |-> JsonValue(doc.name).s,
     estimated_rows |-> JsonValue(doc.estimated_rows).n,
     columns |-> [c \in 1..Len(doc.columns) |-> LoadColumn(doc.columns[c])],
     has_header |-> JsonValue(doc.has_header).n = 1,
     data_range |-> JsonValue(doc.data_range).s,
     sampling_strategy |-> JsonValue(doc.sampling_strategy).s]

\* The document json.dump(self.metadata, f, ...) writes.
DumpMetadata(md) ==
    [file_info |->
        [path |-> JsonToken(StrVal(md.file_info.path)),
         filename |-> JsonToken(StrVal(md.file_info.filename)),
         size_bytes |-> JsonToken(IntVal(md.file_info.size_bytes)),
         size_mb |-> JsonToken(md.file_info.size_mb),
         extraction_time |-> JsonToken(StrVal(md.file_info.extraction_time))],
     sheets |-> [k \in 1..Len(md.sheets) |-> DumpSheet(md.sheets[k])],
     statistics |->
        [total_sheets |-> JsonToken(IntVal(md.statistics.total_sheets)),
         total_columns |-> JsonToken(IntVal(md.statistics.total_columns)),
         estimated_total_rows |-> JsonToken(IntVal(md.statistics.estimated_total_rows)),
         data_types |-> md.statistics.data_types],
     exploration_guide |-> md.exploration_guide]

\* The encoder meets a value it raises TypeError on.
DumpRaises(md) ==
    \E k \in 1..Len(md.sheets) : \E c \in 1..Len(md.sheets[k].columns) :
        \E v \in 1..Len(md.sheets[k].columns[c].sample_values) :
            JsonToken(md.sheets[k].columns[c].sample_values[v]).j = "TypeError"

\* The dictionary json.load(f) builds from a written document.
LoadMetadataDoc(doc) ==
    [file_info |->
        [path |-> JsonValue(doc.file_info.path).s,
         filename |-> JsonValue(doc.file_info.filename).s,
         size_bytes |-> JsonValue(doc.file_info.size_bytes).n,
         size_mb |-> JsonValue(doc.file_info.size_mb),
         extraction_time |-> JsonValue(doc.file_info.extraction_time).s],
     sheets |-> [k \in 1..Len(doc.sheets) |-> LoadSheet(doc.sheets[k])],
     statistics |->
        [total_sheets |-> JsonValue(doc.statistics.total_sheets).n,
         total_columns |-> JsonValue(doc.statistics.total_columns).n,
         estimated_total_rows |-> JsonValue(doc.statistics.estimated_total_rows).n,
         data_types |-> doc.statistics.data_types],
     exploration_guide |-> doc.exploration_guide]

----------------------------------------------------------------------------
(* The file, the analyzer's arguments and the workbook *)

\* file_path, its size in bytes, metadata_dir and run_id of the run
ExcelFile == [path |-> <<"u", "/", "b", ".", "x", "l", "s", "x">>, size_bytes |-> 2621440]
MetadataDir == <<"m", "e", "t", "a", "d", "a", "t", "a">>
RunId == <<"r", "1">>

\* os.path.basename(path)
RECURSIVE Basename(_)
Basename(path) ==
    IF \E k \in 1..Len(path) : path[k] = "/"
    THEN Basename(Tail(path))
    ELSE path

\* round(size / (1024 * 1024), 2) and its repr (size below 20 MB): the
\* division by a power of two is exact, the rounding is half to even.
SizeMb(size) ==
    LET mb == 1024 * 1024
        q == (size * 100) \div mb
        r == (size * 100) % mb
        h == IF 2 * r > mb THEN q + 1
             ELSE IF 2 * r = mb THEN q + (q % 2)
             ELSE q
        frac == h % 100
    IN FloatVal(IntStr(h \div 100) \o <<".">>
                \o (IF frac % 10 = 0 THEN IntStr(frac \div 10)
                    ELSE <<DigitChars[(frac \div 10) + 1], DigitChars[(frac % 10) + 1]>>))

\* datetime.now().isoformat() read in the k-th call: a later call reads a later time
Clock(k) == <<"T">> \o IntStr(k)

\* One file name for every run.
MetadataPathWithoutRunId(dir, rid) ==
    dir \o <<"/", "m", "e", "t", "a", "d", "a", "t", "a", ".", "j", "s", "o", "n">>

\* metadata_dir / f"{run_id}_metadata.json"
MetadataPath(dir, rid) ==
    dir \o <<"/">> \o rid
        \o <<"_", "m", "e", "t", "a", "d", "a", "t", "a", ".", "j", "s", "o", "n">>

\* Lines 59-78
NewMetadata(k) ==
    [file_info |->
        [path |-> ExcelFile.path,
         filename |-> Basename(ExcelFile.path),
         size_bytes |-> ExcelFile.size_bytes,
         size_mb |-> SizeMb(ExcelFile.size_bytes),
         extraction_time |-> Clock(k)],
     sheets |-> <<>>,
     statistics |->
        [total_sheets |-> 0, total_columns |-> 0, estimated_total_rows |-> 0,
         data_types |-> EmptyDict],
     exploration_guide |-> [message |-> "explore", recommended_approach |-> "sample"]]

(* Bounds of the runs *)

MaxSheets == 2
MaxCalls == 2
MaxFailAt == 7
WideColumns == 28

\* The kinds of sheet a workbook of the runs is made of: a small one, one
\* wide enough for two-letter columns, a large-tier one, and one whose
\* declared last rows are not stored.
RunSheetKinds == <<
    [max_row |-> 3, max_column |-> 2, last_row |-> 3, first_plan |-> 3],
    [max_row |-> 2, max_column |-> WideColumns, last_row |-> 2, first_plan |-> 1],
    [max_row |-> LARGE_ROWS + 1, max_column |-> 1, last_row |-> LARGE_ROWS + 1, first_plan |-> 5],
    [max_row |-> 4, max_column |-> 1, last_row |-> 2, first_plan |-> 6]
>>

\* The k-th sheet of a workbook is named by its position.
NamedSheet(kind, k) ==
    [max_row |-> kind.max_row, max_column |-> kind.max_column,
     last_row |-> kind.last_row, first_plan |-> kind.first_plan, name |-> SheetName(k)]

Workbooks ==
    UNION {{[k \in 1..n |-> NamedSheet(RunSheetKinds[f[k]], k)] :
               f \in [1..n -> 1..Len(RunSheetKinds)]} : n \in 1..MaxSheets}

RunChunkSizes == {0, 2}

RunCallbacks ==
    {NoCallback} \cup {[given |-> TRUE, fail_at |-> k] : k \in 0..MaxFailAt}

\* No sheet is being analysed.
NoSheet == [max_row |-> 0, max_column |-> 0, last_row |-> 0, first_plan |-> 1, name |-> <<>>]

----------------------------------------------------------------------------
(* LargeFileAnalyzer: construction, extract_and_save_metadata, load_metadata *)

\* The locals of a call of _extract_sheet_metadata that has not started.
FreshLocals ==
    /\ headers' = <<>>
    /\ sample_size' = 0
    /\ step' = 0
    /\ column_metadata' = <<>>
    /\ i' = 0
    /\ rows_sampled' = 0
    /\ reads' = <<>>
    /\ nonnull_seen' = <<>>
    /\ sheet_metadata' = NoResult
    /\ last_progress_report' = 0

InitRun ==
    /\ workbook \in Workbooks
    /\ file_state \in {"ok", "missing", "corrupt"}
    /\ chunk_size \in RunChunkSizes
    /\ callback \in RunCallbacks
    /\ sheet = NoSheet
    /\ pc = "idle"
    /\ headers = <<>>
    /\ sample_size = 0
    /\ step = 0
    /\ column_metadata = <<>>
    /\ i = 0
    /\ rows_sampled = 0
    /\ reads = <<>>
    /\ nonnull_seen = <<>>
    /\ sheet_metadata = NoResult
    /\ last_progress_report = 0
    /\ events = <<>>
    /\ error = "none"
    /\ run_pc = "new"
    /\ wb_handle = NoHandle
    /\ sheet_idx = 0
    /\ metadata = NoDict
    /\ extractor_metadata = NoDict
    /\ analyzer_metadata = NoDict
    /\ fs = NoFiles
    /\ writes = <<>>
    /\ calls = 0
    /\ previous = NoDict
    /\ run_id = RunId
    /\ parked = NoDict
    /\ solo = NoDict
    /\ yielded = <<>>

\* LargeFileAnalyzer.__init__ (lines 336-341) with ExcelMetadataExtractor.__init__
\* (lines 31-35): os.path.getsize raises FileNotFoundError on a missing file.
Construct ==
    /\ run_pc = "new"
    /\ fs' = [fs EXCEPT !.dirs = @ \cup {MetadataDir}]
    /\ IF file_state = "missing"
       THEN /\ run_pc' = "raised"
            /\ error' = "FileNotFoundError"
            /\ UNCHANGED <<extractor_metadata, analyzer_metadata>>
       ELSE /\ run_pc' = "constructed"
            /\ extractor_metadata' = EmptyDict
            /\ analyzer_metadata' = NoDict
            /\ UNCHANGED error
    /\ UNCHANGED <<sheetvars, callback, events, workbook, file_state, wb_handle,
                   sheet_idx, metadata, writes, calls, previous>>
    /\ UNCHANGED pairvars

\* The calls one analyzer receives: run_analysis_async (app.py lines 383-389)
\* calls the analyzer it built once; any other caller may call again.
CallsAllowed == IF solo = NoDict THEN MaxCalls ELSE 1

\* extract_and_save_metadata is called (line 356) and extract_metadata emits
\* its first event (lines 48-54).
StartExtract ==
    /\ run_pc \in {"constructed", "returned"}
    /\ calls < CallsAllowed
    /\ calls' = calls + 1
    /\ previous' = IF run_pc = "returned" THEN extractor_metadata ELSE previous
    /\ wb_handle' = NoHandle
    /\ events' = Emit(Event("extracting", 0, 0))
    /\ IF CallbackRaises
       THEN run_pc' = "raised" /\ error' = "CallbackError"
       ELSE run_pc' = "opening" /\ UNCHANGED error
    /\ UNCHANGED <<sheetvars, callback, workbook, file_state, sheet_idx, metadata,
                   extractor_metadata, analyzer_metadata, fs, writes>>
    /\ UNCHANGED pairvars

\* load_workbook, the dictionary of an earlier call being filled further.
OpenWorkbookReusesDict ==
    /\ run_pc = "opening"
    /\ IF file_state = "corrupt"
       THEN /\ run_pc' = "raised"
            /\ error' = "BadZipFile"
            /\ UNCHANGED <<wb_handle, metadata, sheet_idx>>
       ELSE /\ wb_handle' = [opens |-> wb_handle.opens + 1, open |-> TRUE]
            /\ metadata' = IF extractor_metadata \in {EmptyDict, NoDict}
                           THEN NewMetadata(calls)
                           ELSE extractor_metadata
            /\ sheet_idx' = 0
            /\ run_pc' = "sheets"
            /\ UNCHANGED error
    /\ UNCHANGED <<sheetvars, callback, events, workbook, file_state,
                   extractor_metadata, analyzer_metadata, fs, writes, calls, previous>>
    /\ UNCHANGED pairvars

\* Lines 57-78: load_workbook and the fresh metadata dictionary.
OpenWorkbook ==
    /\ run_pc = "opening"
    /\ IF file_state = "corrupt"
       THEN /\ run_pc' = "raised"
            /\ error' = "BadZipFile"
            /\ UNCHANGED <<wb_handle, metadata, sheet_idx>>
       ELSE /\ wb_handle' = [opens |-> wb_handle.opens + 1, open |-> TRUE]
            /\ metadata' = NewMetadata(calls)
            /\ sheet_idx' = 0
            /\ run_pc' = "sheets"
            /\ UNCHANGED error
    /\ UNCHANGED <<sheetvars, callback, events, workbook, file_state,
                   extractor_metadata, analyzer_metadata, fs, writes, calls, previous>>
    /\ UNCHANGED pairvars

\* Lines 81-90 and 115: the next sheet name, its event, and the call of
\* _extract_sheet_metadata.
BeginSheet ==
    /\ run_pc = "sheets"
    /\ pc = "idle"
    /\ sheet_idx < Len(workbook)
    /\ events' = Emit(Event("analyzing", sheet_idx + 1, Len(workbook)))
    /\ IF CallbackRaises
       THEN /\ run_pc' = "raised"
            /\ error' = "CallbackError"
            /\ UNCHANGED sheetvars
       ELSE /\ sheet' = workbook[sheet_idx + 1]
            /\ pc' = "headers"
            /\ FreshLocals
            /\ UNCHANGED <<chunk_size, run_pc, error>>
    /\ UNCHANGED <<callback, workbook, file_state, wb_handle, sheet_idx, metadata,
                   extractor_metadata, analyzer_metadata, fs, writes, calls, previous>>
    /\ UNCHANGED pairvars

\* The sheet is appended and self.metadata of the extractor updated at once.
AppendSheetUpdatesSelf ==
    /\ run_pc = "sheets"
    /\ pc = "done"
    /\ metadata' =
          [metadata EXCEPT
              !.sheets = Append(@, sheet_metadata),
              !.statistics.total_columns = @ + Len(sheet_metadata.columns),
              !.statistics.estimated_total_rows = @ + sheet_metadata.estimated_rows]
    /\ extractor_metadata' = metadata'
    /\ sheet_idx' = sheet_idx + 1
    /\ pc' = "idle"
    /\ UNCHANGED <<sheet, chunk_size, headers, sample_size, step, column_metadata, i,
                   rows_sampled, reads, nonnull_seen, sheet_metadata,
                   last_progress_report>>
    /\ UNCHANGED <<callback, events, error, workbook, file_state, run_pc, wb_handle,
                   analyzer_metadata, fs, writes, calls, previous>>
    /\ UNCHANGED pairvars

\* The sheet is appended and the metadata file written after every sheet.
AppendSheetPersists ==
    /\ run_pc = "sheets"
    /\ pc = "done"
    /\ metadata' =
          [metadata EXCEPT
              !.sheets = Append(@, sheet_metadata),
              !.statistics.total_columns = @ + Len(sheet_metadata.columns),
              !.statistics.estimated_total_rows = @ + sheet_metadata.estimated_rows]
    /\ writes' = Append(writes, [call |-> calls, by |-> run_id, path |-> MetadataPath(MetadataDir, run_id)])
    /\ fs' = [fs EXCEPT !.files = {f \in @ : f.path # MetadataPath(MetadataDir, run_id)}
                  \cup {[path |-> MetadataPath(MetadataDir, run_id), content |-> [py |-> "partial"]]}]
    /\ sheet_idx' = sheet_idx + 1
    /\ pc' = "idle"
    /\ UNCHANGED <<sheet, chunk_size, headers, sample_size, step, column_metadata, i,
                   rows_sampled, reads, nonnull_seen, sheet_metadata,
                   last_progress_report>>
    /\ UNCHANGED <<callback, events, error, workbook, file_state, run_pc, wb_handle,
                   extractor_metadata, analyzer_metadata, calls, previous>>
    /\ UNCHANGED pairvars

\* The totals are overwritten by the last sheet's numbers, not added to.
AppendSheetOverwritesTotals ==
    /\ run_pc = "sheets"
    /\ pc = "done"
    /\ metadata' =
          [metadata EXCEPT
              !.sheets = Append(@, sheet_metadata),
              !.statistics.total_columns = Len(sheet_metadata.columns),
              !.statistics.estimated_total_rows = sheet_metadata.estimated_rows]
    /\ sheet_idx' = sheet_idx + 1
    /\ pc' = "idle"
    /\ UNCHANGED <<sheet, chunk_size, headers, sample_size, step, column_metadata, i,
                   rows_sampled, reads, nonnull_seen, sheet_metadata,
                   last_progress_report>>
    /\ UNCHANGED <<callback, events, error, workbook, file_state, run_pc, wb_handle,
                   extractor_metadata, analyzer_metadata, fs, writes, calls, previous>>
    /\ UNCHANGED pairvars

\* Lines 90-95: the sheet's metadata is appended and the totals updated.
AppendSheet ==
    /\ run_pc = "sheets"
    /\ pc = "done"
    /\ metadata' =
          [metadata EXCEPT
              !.sheets = Append(@, sheet_metadata),
              !.statistics.total_columns = @ + Len(sheet_metadata.columns),
              !.statistics.estimated_total_rows = @ + sheet_metadata.estimated_rows]
    /\ sheet_idx' = sheet_idx + 1
    /\ pc' = "idle"
    /\ UNCHANGED <<sheet, chunk_size, headers, sample_size, step, column_metadata, i,
                   rows_sampled, reads, nonnull_seen, sheet_metadata,
                   last_progress_report>>
    /\ UNCHANGED <<callback, events, error, workbook, file_state, run_pc, wb_handle,
                   extractor_metadata, analyzer_metadata, fs, writes, calls, previous>>
    /\ UNCHANGED pairvars

\* An exception raised in _extract_sheet_metadata leaves extract_metadata and
\* extract_and_save_metadata: neither has a handler.
SheetRaises ==
    /\ run_pc = "sheets"
    /\ pc = "raised"
    /\ run_pc' = "raised"
    /\ UNCHANGED <<sheet, chunk_size, pc, headers, sample_size, step, column_metadata, i,
                   rows_sampled, reads, nonnull_seen, sheet_metadata,
                   last_progress_report>>
    /\ UNCHANGED <<callback, events, error, workbook, file_state, wb_handle, sheet_idx,
                   metadata, extractor_metadata, analyzer_metadata, fs, writes, calls,
                   previous>>
    /\ UNCHANGED pairvars

\* CloseWorkbook without wb.close().
CloseWorkbookLeavesOpen ==
    /\ run_pc = "sheets"
    /\ pc = "idle"
    /\ sheet_idx = Len(workbook)
    /\ metadata' = [metadata EXCEPT !.statistics.total_sheets = Len(metadata.sheets)]
    /\ run_pc' = "closed"
    /\ UNCHANGED <<sheetvars, callback, events, error, workbook, file_state, sheet_idx,
                   wb_handle, extractor_metadata, analyzer_metadata, fs, writes, calls,
                   previous>>
    /\ UNCHANGED pairvars

\* Lines 97-100: after the last sheet, total_sheets and wb.close().
CloseWorkbook ==
    /\ run_pc = "sheets"
    /\ pc = "idle"
    /\ sheet_idx = Len(workbook)
    /\ metadata' = [metadata EXCEPT !.statistics.total_sheets = Len(metadata.sheets)]
    /\ wb_handle' = [wb_handle EXCEPT !.open = FALSE]
    /\ run_pc' = "closed"
    /\ UNCHANGED <<sheetvars, callback, events, error, workbook, file_state, sheet_idx,
                   extractor_metadata, analyzer_metadata, fs, writes, calls, previous>>
    /\ UNCHANGED pairvars

\* Lines 102-111 and 356: the completion event, self.metadata = metadata in
\* the extractor, and the analyzer's self.metadata = the returned dictionary.
Complete ==
    /\ run_pc = "closed"
    /\ events' = Emit(Event("completed", Len(metadata.sheets),
                            metadata.statistics.total_columns))
    /\ IF CallbackRaises
       THEN /\ run_pc' = "raised"
            /\ error' = "CallbackError"
            /\ UNCHANGED <<extractor_metadata, analyzer_metadata>>
       ELSE /\ extractor_metadata' = metadata
            /\ analyzer_metadata' = metadata
            /\ run_pc' = "extracted"
            /\ UNCHANGED error
    /\ UNCHANGED <<sheetvars, callback, workbook, file_state, wb_handle, sheet_idx,
                   metadata, fs, writes, calls, previous>>
    /\ UNCHANGED pairvars

\* open(path, 'w') followed by json.dump: the file at path holds the document,
\* or what was written of it when the encoder raised.
WriteFile(files, path, doc) ==
    {f \in files : f.path # path} \cup {[path |-> path, content |-> doc]}

\* Lines 359-361 with save_metadata (lines 280-281).
SaveMetadata ==
    /\ run_pc = "extracted"
    /\ LET metadata_path == MetadataPath(MetadataDir, run_id) IN
        /\ writes' = Append(writes, [call |-> calls, by |-> run_id, path |-> metadata_path])
        /\ IF DumpRaises(extractor_metadata)
           THEN /\ fs' = [fs EXCEPT !.files = WriteFile(@, metadata_path, [py |-> "partial"])]
                /\ run_pc' = "raised"
                /\ error' = "TypeError"
           ELSE /\ fs' = [fs EXCEPT !.files =
                              WriteFile(@, metadata_path, DumpMetadata(extractor_metadata))]
                /\ run_pc' = "returned"
                /\ UNCHANGED error
    /\ UNCHANGED <<sheetvars, callback, events, workbook, file_state, wb_handle,
                   sheet_idx, metadata, extractor_metadata, analyzer_metadata, calls,
                   previous>>
    /\ UNCHANGED pairvars

\* load_metadata (lines 363-367) on the path extract_and_save_metadata returned.
LoadMetadata ==
    /\ run_pc = "returned"
    /\ LET metadata_path == MetadataPath(MetadataDir, run_id)
           f == CHOOSE g \in fs.files : g.path = metadata_path
       IN analyzer_metadata' = LoadMetadataDoc(f.content)
    /\ run_pc' = "loaded"
    /\ UNCHANGED <<sheetvars, callback, events, error, workbook, file_state, wb_handle,
                   sheet_idx, metadata, extractor_metadata, fs, writes, calls,
                   previous>>
    /\ UNCHANGED pairvars

NextRun ==
    \/ Construct
    \/ StartExtract
    \/ OpenWorkbook
    \/ BeginSheet
    \/ ReadHeaders
    \/ SelectStrategy
    \/ SelectStrategyRaises
    \/ SampleRow
    \/ SkipAbsentRow
    \/ EndSampling
    \/ Finalize
    \/ AppendSheet
    \/ SheetRaises
    \/ CloseWorkbook
    \/ Complete
    \/ SaveMetadata
    \/ LoadMetadata

SpecRun == InitRun /\ [][NextRun]_vars

----------------------------------------------------------------------------
(* Two analyzers at work at once (run_analysis_async on two threads)       *)
(*                                                                         *)
(* Each thread builds its own LargeFileAnalyzer and calls                  *)
(* extract_and_save_metadata with its own run_id.  The analyzers share the *)
(* file system and the workbook file; everything else is an attribute of   *)
(* an instance or a local of a call.  The variables hold the state of the  *)
(* analyzer at work, `parked` the state of the other one.  Before the two  *)
(* start, the same run is executed alone and its outcome kept in `solo`.   *)

MaxPairSheets == 1

\* The workbooks of the two threads: made of the narrow kinds of sheet.
PairKinds == {k \in 1..Len(RunSheetKinds) : RunSheetKinds[k].max_column <= MaxCol}

PairWorkbooks ==
    UNION {{[k \in 1..n |-> NamedSheet(RunSheetKinds[f[k]], k)] :
               f \in [1..n -> PairKinds]} : n \in 1..MaxPairSheets}

\* A callback that never raises, and one that raises in its third invocation.
PairCallbacks == {[given |-> TRUE, fail_at |-> 0], [given |-> TRUE, fail_at |-> 3]}

OtherRunId == <<"r", "2">>

Pending == [py |-> "pending"]

\* The attributes and locals of the analyzer at work.
Instance ==
    [sheet |-> sheet, chunk_size |-> chunk_size, pc |-> pc, headers |-> headers,
     sample_size |-> sample_size, step |-> step, column_metadata |-> column_metadata,
     i |-> i, rows_sampled |-> rows_sampled, reads |-> reads,
     nonnull_seen |-> nonnull_seen, sheet_metadata |-> sheet_metadata,
     last_progress_report |-> last_progress_report, callback |-> callback,
     events |-> events, error |-> error, run_pc |-> run_pc, wb_handle |-> wb_handle,
     sheet_idx |-> sheet_idx, metadata |-> metadata,
     extractor_metadata |-> extractor_metadata,
     analyzer_metadata |-> analyzer_metadata, calls |-> calls, previous |-> previous,
     run_id |-> run_id]

\* An analyzer not yet constructed, to be given the arguments of this one.
FreshInstance(rid) ==
    [sheet |-> NoSheet, chunk_size |-> chunk_size, pc |-> "idle", headers |-> <<>>,
     sample_size |-> 0, step |-> 0, column_metadata |-> <<>>,
     i |-> 0, rows_sampled |-> 0, reads |-> <<>>,
     nonnull_seen |-> <<>>, sheet_metadata |-> NoResult,
     last_progress_report |-> 0, callback |-> callback,
     events |-> <<>>, error |-> "none", run_pc |-> "new", wb_handle |-> NoHandle,
     sheet_idx |-> 0, metadata |-> NoDict,
     extractor_metadata |-> NoDict,
     analyzer_metadata |-> NoDict, calls |-> 0, previous |-> NoDict,
     run_id |-> rid]

\* The thread of analyzer `inst` gets the processor.
Resume(inst) ==
    /\ sheet' = inst.sheet
    /\ chunk_size' = inst.chunk_size
    /\ pc' = inst.pc
    /\ headers' = inst.headers
    /\ sample_size' = inst.sample_size
    /\ step' = inst.step
    /\ column_metadata' = inst.column_metadata
    /\ i' = inst.i
    /\ rows_sampled' = inst.rows_sampled
    /\ reads' = inst.reads
    /\ nonnull_seen' = inst.nonnull_seen
    /\ sheet_metadata' = inst.sheet_metadata
    /\ last_progress_report' = inst.last_progress_report
    /\ callback' = inst.callback
    /\ events' = inst.events
    /\ error' = inst.error
    /\ run_pc' = inst.run_pc
    /\ wb_handle' = inst.wb_handle
    /\ sheet_idx' = inst.sheet_idx
    /\ metadata' = inst.metadata
    /\ extractor_metadata' = inst.extractor_metadata
    /\ analyzer_metadata' = inst.analyzer_metadata
    /\ calls' = inst.calls
    /\ previous' = inst.previous
    /\ run_id' = inst.run_id

InitPair ==
    /\ workbook \in PairWorkbooks
    /\ file_state = "ok"
    /\ chunk_size \in RunChunkSizes
    /\ callback \in PairCallbacks
    /\ sheet = NoSheet
    /\ pc = "idle"
    /\ headers = <<>>
    /\ sample_size = 0
    /\ step = 0
    /\ column_metadata = <<>>
    /\ i = 0
    /\ rows_sampled = 0
    /\ reads = <<>>
    /\ nonnull_seen = <<>>
    /\ sheet_metadata = NoResult
    /\ last_progress_report = 0
    /\ events = <<>>
    /\ error = "none"
    /\ run_pc = "new"
    /\ wb_handle = NoHandle
    /\ sheet_idx = 0
    /\ metadata = NoDict
    /\ extractor_metadata = NoDict
    /\ analyzer_metadata = NoDict
    /\ fs = NoFiles
    /\ writes = <<>>
    /\ calls = 0
    /\ previous = NoDict
    /\ run_id = RunId
    /\ parked = NoDict
    /\ solo = Pending
    /\ yielded = <<>>

\* The run executed alone has ended: its outcome is kept, and the two
\* threads of app.py lines 567-572 start on an empty metadata directory,
\* each with an analyzer of its own and the same arguments but for run_id.
StartThreads ==
    /\ solo = Pending
    /\ calls = 1
    /\ run_pc \in {"returned", "raised"}
    /\ solo' = [run_pc |-> run_pc, error |-> error, events |-> events,
                result |-> analyzer_metadata, files |-> fs.files]
    /\ Resume(FreshInstance(RunId))
    /\ parked' = FreshInstance(OtherRunId)
    /\ fs' = NoFiles
    /\ writes' = <<>>
    /\ UNCHANGED <<workbook, file_state, yielded>>

\* The scheduler takes the processor from one thread and gives it to the other.
Switch ==
    /\ solo # Pending
    /\ parked.run_pc \notin {"returned", "raised"}
    /\ Resume(parked)
    /\ parked' = Instance
    /\ UNCHANGED <<workbook, file_state, fs, writes, solo, yielded>>

NextPair ==
    \/ Construct
    \/ StartExtract
    \/ OpenWorkbook
    \/ BeginSheet
    \/ ReadHeaders
    \/ SelectStrategy
    \/ SelectStrategyRaises
    \/ SampleRow
    \/ SkipAbsentRow
    \/ EndSampling
    \/ Finalize
    \/ AppendSheet
    \/ SheetRaises
    \/ CloseWorkbook
    \/ Complete
    \/ SaveMetadata
    \/ StartThreads
    \/ Switch

SpecPair == InitPair /\ [][NextPair]_vars

----------------------------------------------------------------------------
(* _extract_sheet_metadata with a progress callback on samples of more than *)
(* 100 rows                                                                 *)

\* Sheets of the three tiers, one column each; the last one declares 301
\* rows and stores 150.
ProgressSheets ==
    {[max_row |-> 5001, max_column |-> 1, last_row |-> 5001, first_plan |-> 2,
      name |-> SheetName(1)],
     [max_row |-> LARGE_ROWS + 1, max_column |-> 1, last_row |-> LARGE_ROWS + 1,
      first_plan |-> 1, name |-> SheetName(1)],
     [max_row |-> MASSIVE_ROWS + 1, max_column |-> 1, last_row |-> MASSIVE_ROWS + 1,
      first_plan |-> 1, name |-> SheetName(1)],
     [max_row |-> 301, max_column |-> 1, last_row |-> 150, first_plan |-> 7,
      name |-> SheetName(1)]}

ProgressChunkSizes == {0, LARGE_SAMPLE - 50, LARGE_SAMPLE + 50, 5000}

\* No callback, one that never raises, one that raises in its third invocation.
ProgressCallbacks ==
    {NoCallback, [given |-> TRUE, fail_at |-> 0], [given |-> TRUE, fail_at |-> 3]}

InitProgress ==
    /\ sheet \in ProgressSheets
    /\ chunk_size \in ProgressChunkSizes
    /\ callback \in ProgressCallbacks
    /\ pc = "headers"
    /\ headers = <<>>
    /\ sample_size = 0
    /\ step = 0
    /\ column_metadata = <<>>
    /\ i = 0
    /\ rows_sampled = 0
    /\ reads = <<>>
    /\ nonnull_seen = <<>>
    /\ sheet_metadata = NoResult
    /\ last_progress_report = 0
    /\ events = <<>>
    /\ error = "none"
    /\ NoRun

SpecProgress == InitProgress /\ [][Next]_vars

----------------------------------------------------------------------------
(* extract_and_save_metadata with a callback on workbooks whose sheets are  *)
(* sampled on more than 100 rows                                            *)

MaxOrderSheets == 2

\* A sheet that declares 152 rows and stores 120, and a sheet of the large tier.
OrderKinds == <<
    [max_row |-> 152, max_column |-> 1, last_row |-> 120, first_plan |-> 7],
    [max_row |-> LARGE_ROWS + 1, max_column |-> 1, last_row |-> LARGE_ROWS + 1, first_plan |-> 1]
>>

OrderWorkbooks ==
    UNION {{[k \in 1..n |-> NamedSheet(OrderKinds[f[k]], k)] :
               f \in [1..n -> 1..Len(OrderKinds)]} : n \in 1..MaxOrderSheets}

OrderChunkSizes == {0, 150}

\* A callback that never raises, and callbacks that raise in their third
\* and in their fifth invocation.
OrderCallbacks ==
    {[given |-> TRUE, fail_at |-> 0], [given |-> TRUE, fail_at |-> 3],
     [given |-> TRUE, fail_at |-> 5]}

InitOrder ==
    /\ workbook \in OrderWorkbooks
    /\ file_state \in {"ok", "missing", "corrupt"}
    /\ chunk_size \in OrderChunkSizes
    /\ callback \in OrderCallbacks
    /\ sheet = NoSheet
    /\ pc = "idle"
    /\ headers = <<>>
    /\ sample_size = 0
    /\ step = 0
    /\ column_metadata = <<>>
    /\ i = 0
    /\ rows_sampled = 0
    /\ reads = <<>>
    /\ nonnull_seen = <<>>
    /\ sheet_metadata = NoResult
    /\ last_progress_report = 0
    /\ events = <<>>
    /\ error = "none"
    /\ run_pc = "new"
    /\ wb_handle = NoHandle
    /\ sheet_idx = 0
    /\ metadata = NoDict
    /\ extractor_metadata = NoDict
    /\ analyzer_metadata = NoDict
    /\ fs = NoFiles
    /\ writes = <<>>
    /\ calls = 0
    /\ previous = NoDict
    /\ run_id = RunId
    /\ parked = NoDict
    /\ solo = NoDict
    /\ yielded = <<>>

SpecOrder == InitOrder /\ [][NextRun]_vars

----------------------------------------------------------------------------
(* The same extraction without and with a callback                          *)
(*                                                                          *)
(* extract_and_save_metadata is first run with event_callback=None, the     *)
(* default of line 343; its outcome is kept in `solo`, and a new analyzer   *)
(* with the same arguments is run with a callback that returns.             *)

\* The callbacks that return from every invocation.
ReturningCallbacks == {[given |-> TRUE, fail_at |-> 0]}

InitCallback ==
    /\ workbook \in OrderWorkbooks
    /\ file_state = "ok"
    /\ chunk_size \in OrderChunkSizes
    /\ callback = NoCallback
    /\ sheet = NoSheet
    /\ pc = "idle"
    /\ headers = <<>>
    /\ sample_size = 0
    /\ step = 0
    /\ column_metadata = <<>>
    /\ i = 0
    /\ rows_sampled = 0
    /\ reads = <<>>
    /\ nonnull_seen = <<>>
    /\ sheet_metadata = NoResult
    /\ last_progress_report = 0
    /\ events = <<>>
    /\ error = "none"
    /\ run_pc = "new"
    /\ wb_handle = NoHandle
    /\ sheet_idx = 0
    /\ metadata = NoDict
    /\ extractor_metadata = NoDict
    /\ analyzer_metadata = NoDict
    /\ fs = NoFiles
    /\ writes = <<>>
    /\ calls = 0
    /\ previous = NoDict
    /\ run_id = RunId
    /\ parked = NoDict
    /\ solo = Pending
    /\ yielded = <<>>

\* The run without a callback has ended: its outcome is kept, and a new
\* analyzer is given the same file, run_id and chunk_size, and a callback.
RunWithCallback ==
    /\ solo = Pending
    /\ ~callback.given
    /\ calls = 1
    /\ run_pc \in {"returned", "raised"}
    /\ solo' = [run_pc |-> run_pc, error |-> error, result |-> analyzer_metadata,
                sample_size |-> sample_size, step |-> step, reads |-> reads]
    /\ \E cb \in ReturningCallbacks :
          Resume([FreshInstance(RunId) EXCEPT !.callback = cb])
    /\ fs' = NoFiles
    /\ writes' = <<>>
    /\ UNCHANGED <<workbook, file_state, parked, yielded>>

NextCallback ==
    \/ Construct
    \/ StartExtract
    \/ OpenWorkbook
    \/ BeginSheet
    \/ ReadHeaders
    \/ SelectStrategy
    \/ SelectStrategyRaises
    \/ SampleRow
    \/ SkipAbsentRow
    \/ EndSampling
    \/ Finalize
    \/ AppendSheet
    \/ SheetRaises
    \/ CloseWorkbook
    \/ Complete
    \/ SaveMetadata
    \/ LoadMetadata
    \/ RunWithCallback

SpecCallback == InitCallback /\ [][NextCallback]_vars

----------------------------------------------------------------------------
(* get_chunk_iterator *)

\* The chunk_size argument: None (the default), or a number of rows.
ChunkArgs == {None} \cup {IntVal(k) : k \in 0..MaxSmallChunk}

\* `chunk_size or self.chunk_size`: None and 0 fall back to the attribute.
EffectiveChunkSize(arg) == IF arg = None \/ arg.n = 0 THEN chunk_size ELSE arg.n

\* What pd.read_excel does with the keyword chunksize, which it does not
\* support: the TypeError of an unexpected keyword argument, or in the
\* releases that still took **kwds the NotImplementedError
\* 'chunksize keyword of read_excel is not implemented'.
ReadExcelChunksize == {"TypeError", "NotImplementedError"}

InitChunks ==
    /\ sheet \in {sh \in Sheets : sh.max_row <= MaxSmallRow /\ sh.last_row = sh.max_row}
    /\ chunk_size \in 1..MaxSmallChunk
    /\ pc = "chunks"
    /\ headers = <<>>
    /\ sample_size = 0
    /\ step = 0
    /\ column_metadata = <<>>
    /\ i = 0
    /\ rows_sampled = 0
    /\ reads = <<>>
    /\ nonnull_seen = <<>>
    /\ sheet_metadata = NoResult
    /\ last_progress_report = 0
    /\ callback = NoCallback
    /\ events = <<>>
    /\ error = "none"
    /\ NoRun

\* The first next() on the generator (lines 294-303): the body runs up to the
\* call of pd.read_excel, which raises before any chunk is yielded.
GetChunkIterator ==
    /\ pc = "chunks"
    /\ \E arg \in ChunkArgs : \E exc \in ReadExcelChunksize :
          /\ EffectiveChunkSize(arg) >= 1
          /\ error' = exc
    /\ pc' = "raised"
    /\ UNCHANGED <<sheet, chunk_size, headers, sample_size, step, column_metadata, i,
                   rows_sampled, reads, nonnull_seen, sheet_metadata,
                   last_progress_report>>
    /\ UNCHANGED <<callback, events, runvars>>

NextChunks == GetChunkIterator

SpecChunks == InitChunks /\ [][NextChunks]_vars

----------------------------------------------------------------------------
(* Properties *)

TypeOK ==
    /\ pc \in {"headers", "select", "raised", "sampling", "finalize", "done",
                "infer", "inferred"}
    /\ Len(column_metadata) <= sheet.max_column

\* The strategy has been selected (the function has passed line 163).
Selected == pc \in {"sampling", "finalize", "done"}

Columns == 1..Len(column_metadata)

Classes == {"numeric", "date", "text", "boolean"}

\* The k-th read returned a row, and that row's value in column c.
Returned(k) == IterRows(sheet, reads[k]) # <<>>
SampledValue(k, c) == IterRows(sheet, reads[k])[1][c]

\* The reads that met a non-null value in column c.
NonNullReads(c) == {k \in 1..Len(reads) : Returned(k) /\ SampledValue(k, c) # None}

\* The votes for class t among all non-null values sampled in column c.
VotesAll(c, t) == Cardinality({k \in NonNullReads(c) : Classify(SampledValue(k, c)) = t})

\* The first `limit` non-null values sampled in column c, in row order.
RECURSIVE FirstNonNullFrom(_, _, _)
FirstNonNullFrom(c, k, limit) ==
    IF k > Len(reads) \/ limit = 0 THEN <<>>
    ELSE IF Returned(k) /\ SampledValue(k, c) # None
    THEN <<SampledValue(k, c)>> \o FirstNonNullFrom(c, k + 1, limit - 1)
    ELSE FirstNonNullFrom(c, k + 1, limit)

\* When none of the first `limit` rows read is absent or null in column c,
\* these rows are the answer.
FirstNonNull(c, limit) ==
    LET n == Min(limit, Len(reads))
        dense == \A k \in 1..n : Returned(k) /\ SampledValue(k, c) # None
    IN IF nonnull_seen[c] = 0 THEN <<>>
       ELSE IF dense THEN [k \in 1..n |-> SampledValue(k, c)]
       ELSE FirstNonNullFrom(c, 1, limit)

VotesIn(values, t) == Cardinality({k \in 1..Len(values) : Classify(values[k]) = t})

\* C1: on a sheet of more than 100,000 rows the strategy is step 1 and
\* sample_size min(100, chunk_size), and the returned sampling_strategy text
\* and every column's sampling_step report exactly these values.
C1_MassiveTier ==
    (Selected /\ sheet.max_row > 100000) =>
        /\ step = 1
        /\ sample_size = Min(100, chunk_size)
        /\ pc = "done" =>
            /\ sheet_metadata.sampling_strategy
                  = SamplingStrategyText(Min(100, chunk_size), 1)
            /\ \A c \in Columns : sheet_metadata.columns[c].sampling_step = 1

C1_Witness ==
    /\ pc = "done"
    /\ sheet.max_row > 100000
    /\ chunk_size > 100
    /\ sheet.max_column >= 1
    /\ sample_size = 100
    /\ rows_sampled = 100

\* C2: on a sheet of 10,001 to 100,000 rows, with chunk_size >= 1, sample_size
\* is min(200, chunk_size), step is floor((max_row - 1) / sample_size), and no
\* target index 2 + k*step (0 <= k < sample_size) exceeds max_row.
C2_LargeTier ==
    (Selected /\ sheet.max_row > 10000 /\ sheet.max_row <= 100000 /\ chunk_size >= 1) =>
        /\ sample_size = Min(200, chunk_size)
        /\ step = (sheet.max_row - 1) \div sample_size
        /\ \A k \in 0..(sample_size - 1) : 2 + (k * step) <= sheet.max_row

C2_Witness ==
    /\ pc = "done"
    /\ sheet.max_row = 100000
    /\ chunk_size > 200
    /\ Len(reads) = 200
    /\ reads[200] = 2 + (199 * 499)

\* C3 as stated: on a sheet of 2 to 10,000 rows sample_size is
\* min(chunk_size, max_row - 1), step is 1, exactly the rows 2 .. 1 + sample_size
\* are read, once each, and rows_sampled is min(chunk_size, max_row - 1).
C3_Original ==
    (pc = "done" /\ sheet.max_row >= 2 /\ sheet.max_row <= 10000) =>
        /\ sample_size = Min(chunk_size, sheet.max_row - 1)
        /\ step = 1
        /\ reads = [k \in 1..sample_size |-> k + 1]
        /\ rows_sampled = Min(chunk_size, sheet.max_row - 1)
        /\ \A c \in Columns : column_metadata[c].rows_sampled = rows_sampled

\* C3 amended: as above, but rows_sampled counts the rows among
\* 2 .. 1 + sample_size for which the read returned a row; it is
\* min(chunk_size, max_row - 1) when every declared row is stored in the file.
C3_SmallTier ==
    (pc = "done" /\ sheet.max_row >= 2 /\ sheet.max_row <= 10000) =>
        /\ sample_size = Min(chunk_size, sheet.max_row - 1)
        /\ step = 1
        /\ reads = [k \in 1..sample_size |-> k + 1]
        /\ rows_sampled
              = Cardinality({r \in 2..(1 + sample_size) : IterRows(sheet, r) # <<>>})
        /\ (\A r \in 2..(1 + sample_size) : IterRows(sheet, r) # <<>>)
              => rows_sampled = Min(chunk_size, sheet.max_row - 1)
        /\ \A c \in Columns : column_metadata[c].rows_sampled = rows_sampled

C3_Witness ==
    /\ pc = "done"
    /\ sheet.max_row = 50
    /\ chunk_size = 1000
    /\ sheet.max_column >= 1
    /\ Len(reads) = 49
    /\ rows_sampled = 48

\* C4: on a sheet with max_row <= 1 (max_row = 0 included) the selected
\* sample_size, also as the sampling_strategy text reports it, is exactly 0,
\* and there is one column per header cell.
C4_HeaderOnlySampleSize ==
    (Selected /\ sheet.max_row <= 1) =>
        /\ sample_size = 0
        /\ Len(column_metadata) = sheet.max_column
        /\ pc = "done" =>
            /\ sheet_metadata.sampling_strategy = SamplingStrategyText(0, step)
            /\ Len(sheet_metadata.columns) = sheet.max_column

\* C5: on a sheet with max_row <= 1 no row is ever read, and every returned
\* column has data_type 'empty', rows_sampled 0 and null_count 0.
C5_HeaderOnlyColumns ==
    sheet.max_row <= 1 =>
        /\ reads = <<>>
        /\ pc = "done" =>
            \A c \in Columns :
                /\ sheet_metadata.columns[c].data_type = "empty"
                /\ sheet_metadata.columns[c].rows_sampled = 0
                /\ sheet_metadata.columns[c].null_count = 0

C5_Witness ==
    /\ pc = "done"
    /\ sheet.max_row <= 1
    /\ chunk_size >= 1
    /\ Len(sheet_metadata.columns) = 2

\* C6: at every point of the sampling, and in the result, each column's
\* null_count plus the number of non-null values met in its sampled rows is
\* rows_sampled, also once the stored sample list is full.
C6_NullsPlusValues ==
    Selected =>
        \A c \in Columns :
            /\ column_metadata[c].null_count + nonnull_seen[c] = rows_sampled
            /\ pc = "done" => column_metadata[c].rows_sampled = rows_sampled

C6_Witness ==
    /\ pc = "finalize"
    /\ \E c \in Columns :
        /\ nonnull_seen[c] > 100
        /\ Len(column_metadata[c].sample_values) = 100
        /\ column_metadata[c].null_count > 0

\* C7: the selected and the reported sampling_step are >= 1, and every row
\* index read lies in 2 .. max_row.
C7_StepAndRange ==
    /\ Selected => step >= 1
    /\ pc = "done" => \A c \in Columns : sheet_metadata.columns[c].sampling_step >= 1
    /\ reads # <<>> =>
          (reads[Len(reads)] >= 2 /\ reads[Len(reads)] <= sheet.max_row)
    /\ pc \in {"finalize", "done"} =>
          \A k \in 1..Len(reads) : reads[k] >= 2 /\ reads[k] <= sheet.max_row

C7_Witness ==
    /\ pc = "done"
    /\ step > 1
    /\ Len(reads) = 200
    /\ sheet.max_column >= 1

\* C8: in the result, every column has unique_values_count <= rows_sampled -
\* null_count <= rows_sampled, and unique_values_count is 0 exactly when no
\* non-null value was sampled in the column.
C8_UniqueCountBound ==
    pc = "done" =>
        \A c \in Columns :
            LET col == sheet_metadata.columns[c] IN
            /\ col.unique_values_count <= col.rows_sampled - col.null_count
            /\ col.rows_sampled - col.null_count <= col.rows_sampled
            /\ col.unique_values_count = 0 <=> nonnull_seen[c] = 0

C8_Witness ==
    /\ pc = "done"
    /\ \E c \in Columns :
        LET col == sheet_metadata.columns[c] IN
        /\ col.unique_values_count > 0
        /\ col.unique_values_count < col.rows_sampled - col.null_count
    /\ \E c \in Columns :
        LET col == sheet_metadata.columns[c] IN
        /\ col.unique_values_count = 0
        /\ col.rows_sampled > 0

C10_TieOrder ==
    (pc = "inferred" /\ column_metadata[1].sample_values # <<>>) =>
        LET values == column_metadata[1].sample_values
            order == <<"numeric", "date", "text", "boolean">>
            top == CHOOSE n \in 0..Len(values) :
                      /\ \E k \in 1..4 : VotesIn(values, order[k]) = n
                      /\ \A k \in 1..4 : VotesIn(values, order[k]) <= n
            first == CHOOSE k \in 1..4 :
                      /\ VotesIn(values, order[k]) = top
                      /\ \A j \in 1..(k - 1) : VotesIn(values, order[j]) < top
        IN column_metadata[1].data_type = order[first]

C10_Witness ==
    /\ pc = "inferred"
    /\ LET values == column_metadata[1].sample_values IN
        /\ VotesIn(values, "date") = 1
        /\ VotesIn(values, "text") = 1
        /\ VotesIn(values, "numeric") = 0
    /\ column_metadata[1].data_type = "date"

\* C11: in the result, a column whose value was null in every sampled row
\* (rows_sampled >= 1) has null_count == rows_sampled, data_type 'empty',
\* unique_values_count 0 and no sample_values.
C11_AllNullColumn ==
    pc = "done" =>
        \A c \in Columns :
            LET col == sheet_metadata.columns[c] IN
            (col.rows_sampled >= 1 /\ NonNullReads(c) = {}) =>
                /\ col.null_count = col.rows_sampled
                /\ col.data_type = "empty"
                /\ col.unique_values_count = 0
                /\ col.sample_values = <<>>
                /\ col.unique_values_sample = <<>>

C11_Witness ==
    /\ pc = "done"
    /\ rows_sampled > 100
    /\ \E c \in Columns :
        /\ NonNullReads(c) = {}
        /\ sheet_metadata.columns[c].null_count = rows_sampled
        /\ sheet_metadata.columns[c].data_type = "empty"

----------------------------------------------------------------------------
(* Properties of the runs *)

\* The call of extract_metadata has ended: it raised or it returned.
ExtractEnded == run_pc \in {"raised", "extracted", "returned", "loaded"}

\* extract_metadata returned normally in the current call.
ExtractReturned == run_pc \in {"extracted", "returned", "loaded"}

\* The call ended by an exception raised while a sheet was analysed.
SheetFailed == run_pc = "raised" /\ pc = "raised"

\* The open(path, 'w') made in call c.
WritesOf(c) == {k \in 1..Len(writes) : writes[k].call = c}

\* C12: extract_metadata opens the workbook exactly once, and whenever the
\* call has ended, by a return or by an exception raised while analysing a
\* sheet or inside the progress callback, the opened workbook is closed.
C12_ClosedOnEveryExit ==
    /\ wb_handle.opens <= 1
    /\ ExtractReturned => wb_handle.opens = 1
    /\ ExtractEnded => ~wb_handle.open

\* C13: when analysing a sheet raises, the exception ends
\* extract_and_save_metadata (nothing is retried), no metadata file is
\* written in that call, and the metadata attributes of the extractor and
\* of the analyzer keep the values they had before the call.
C13_FailFast ==
    SheetFailed =>
        /\ ~ENABLED NextRun
        /\ error # "none"
        /\ WritesOf(calls) = {}
        /\ wb_handle.opens = 1
        /\ IF calls = 1
           THEN extractor_metadata = EmptyDict /\ analyzer_metadata = NoDict
           ELSE extractor_metadata = previous /\ analyzer_metadata = previous

C13_Witness ==
    /\ SheetFailed
    /\ error = "ZeroDivisionError"
    /\ Len(metadata.sheets) = 1
    /\ extractor_metadata = EmptyDict
    /\ analyzer_metadata = NoDict
    /\ fs.files = {}

\* <metadata_dir>/<run_id>_metadata.json for metadata_dir 'metadata', run_id 'r1'
ExpectedPath ==
    <<"m", "e", "t", "a", "d", "a", "t", "a", "/", "r", "1", "_",
      "m", "e", "t", "a", "d", "a", "t", "a", ".", "j", "s", "o", "n">>

\* C14: in one call of extract_and_save_metadata the metadata file is
\* written exactly once, to <metadata_dir>/<run_id>_metadata.json, and only
\* after every sheet has been analysed and the completion event emitted:
\* nothing is written while the extraction is under way.
C14_WrittenOnceAtEnd ==
    /\ \A k \in 1..Len(writes) : writes[k].path = ExpectedPath
    /\ \A f \in fs.files : f.path = ExpectedPath
    /\ \A c \in 1..calls : Cardinality(WritesOf(c)) <= 1
    /\ run_pc \in {"returned", "loaded"} => Cardinality(WritesOf(calls)) = 1
    /\ WritesOf(calls) # {} =>
          /\ run_pc \in {"returned", "loaded"}
          /\ Len(metadata.sheets) = Len(workbook)
          /\ sheet_idx = Len(workbook)
          /\ callback.given => events[Len(events)].kind = "completed"
    /\ (calls <= 1 /\ run_pc \notin {"returned", "loaded"}) => fs.files = {}

C14_Witness ==
    /\ run_pc = "returned"
    /\ calls = 2
    /\ Len(writes) = 2
    /\ callback.given
    /\ Len(workbook) = 2
    /\ Cardinality(fs.files) = 1

\* The fields of a metadata dictionary two runs are compared on.
Structure(md) ==
    [k \in 1..Len(md.sheets) |->
        [estimated_rows |-> md.sheets[k].estimated_rows,
         data_range |-> md.sheets[k].data_range,
         columns |->
            [c \in 1..Len(md.sheets[k].columns) |->
                [data_type |-> md.sheets[k].columns[c].data_type,
                 null_count |-> md.sheets[k].columns[c].null_count,
                 rows_sampled |-> md.sheets[k].columns[c].rows_sampled,
                 sampling_step |-> md.sheets[k].columns[c].sampling_step]]]]

\* C15: a second run of extract_metadata on the same workbook with the same
\* chunk_size returns the same sheet count and, sheet by sheet, the same
\* estimated_rows, data_range and column count and, column by column, the
\* same data_type, null_count, rows_sampled and sampling_step as the first.
C15_SameStructure ==
    (calls = 2 /\ ExtractReturned) =>
        /\ Len(extractor_metadata.sheets) = Len(previous.sheets)
        /\ Structure(extractor_metadata) = Structure(previous)

C15_Witness ==
    /\ calls = 2
    /\ run_pc = "extracted"
    /\ Len(extractor_metadata.sheets) = 2
    /\ extractor_metadata.file_info.extraction_time # previous.file_info.extraction_time
    /\ \E k \in 1..2 : \E c \in 1..Len(previous.sheets[k].columns) :
          /\ previous.sheets[k].columns[c].rows_sampled >= 1
          /\ previous.sheets[k].columns[c].null_count >= 1
    /\ Structure(extractor_metadata) = Structure(previous)

\* The scalar fields of a column, of a sheet and of the file of a metadata
\* dictionary.
ColumnScalars(col) ==
    <<col.name, col.index, col.excel_column, col.data_type, col.null_count,
      col.rows_sampled, col.unique_values_count, col.sampling_step>>

SheetScalars(sh) ==
    <<sh.name, sh.estimated_rows, sh.has_header, sh.data_range, sh.sampling_strategy>>

FileScalars(md) ==
    <<md.file_info.path, md.file_info.filename, md.file_info.size_bytes,
      md.file_info.size_mb, md.file_info.extraction_time,
      md.statistics.total_sheets, md.statistics.total_columns,
      md.statistics.estimated_total_rows>>

\* C16: save_metadata never fails on a dictionary extract_metadata produced,
\* and load_metadata on the written file yields a dictionary with the same
\* number of sheets, in every sheet the same columns in the same order, and
\* equal scalar fields.
C16_RoundTrip ==
    /\ run_pc = "raised" => error # "TypeError"
    /\ run_pc = "loaded" =>
          LET a == extractor_metadata
              b == analyzer_metadata
          IN /\ Len(b.sheets) = Len(a.sheets)
             /\ FileScalars(b) = FileScalars(a)
             /\ \A k \in 1..Len(a.sheets) :
                   /\ SheetScalars(b.sheets[k]) = SheetScalars(a.sheets[k])
                   /\ Len(b.sheets[k].columns) = Len(a.sheets[k].columns)
                   /\ \A c \in 1..Len(a.sheets[k].columns) :
                         ColumnScalars(b.sheets[k].columns[c])
                             = ColumnScalars(a.sheets[k].columns[c])

C16_Witness ==
    /\ run_pc = "loaded"
    /\ Len(analyzer_metadata.sheets) = 2
    /\ analyzer_metadata.sheets[2].name = SheetName(2)
    /\ analyzer_metadata.file_info.size_mb = FloatVal(<<"2", ".", "5">>)
    /\ \E c \in 1..Len(analyzer_metadata.sheets[1].columns) :
          /\ analyzer_metadata.sheets[1].columns[c].name = <<"2", "0", "2", "4">>
          /\ analyzer_metadata.sheets[1].columns[c].rows_sampled = 2
          /\ Len(analyzer_metadata.sheets[1].columns[c].sample_values) = 2

\* C17: extraction on a file path that does not exist raises FileAccessError,
\* no workbook is opened, no progress event is emitted and no metadata file
\* is written.
C17_MissingFile ==
    (file_state = "missing" /\ run_pc = "raised") =>
        /\ error = "FileAccessError"
        /\ wb_handle.opens = 0
        /\ events = <<>>
        /\ fs.files = {}
        /\ writes = <<>>

\* The letter of spreadsheet column k, for k up to 702 (ZZ).
ColumnLetters(k) ==
    IF k <= 26 THEN <<Alphabet[k]>>
    ELSE <<Alphabet[(k - 27) \div 26 + 1], Alphabet[((k - 27) % 26) + 1]>>

\* C19: the returned sheets list has one entry per workbook sheet, in
\* workbook order, and each columns list has one entry per sheet column, in
\* column order: the k-th entry (from 0) has index k and the spreadsheet
\* letter of column k + 1 as excel_column (1 -> A, 26 -> Z, 27 -> AA).
C19_Order ==
    ExtractReturned =>
        /\ Len(extractor_metadata.sheets) = Len(workbook)
        /\ \A k \in 1..Len(workbook) :
              LET sh == extractor_metadata.sheets[k] IN
              /\ sh.name = workbook[k].name
              /\ Len(sh.columns) = workbook[k].max_column
              /\ \A c \in 1..Len(sh.columns) :
                    /\ sh.columns[c].index = c - 1
                    /\ sh.columns[c].excel_column = ColumnLetters(c)
                    /\ sh.columns[c].name = HeaderName(workbook[k], c)

C19_Witness ==
    /\ run_pc = "extracted"
    /\ Len(extractor_metadata.sheets) = 2
    /\ extractor_metadata.sheets[1].name # extractor_metadata.sheets[2].name
    /\ Len(extractor_metadata.sheets[2].columns) >= 27
    /\ extractor_metadata.sheets[2].columns[1].excel_column = <<"A">>
    /\ extractor_metadata.sheets[2].columns[26].excel_column = <<"Z">>
    /\ extractor_metadata.sheets[2].columns[27].excel_column = <<"A", "A">>
    /\ extractor_metadata.sheets[2].columns[27].index = 26

RECURSIVE SumOver(_, _)
SumOver(f, k) == IF k = 0 THEN 0 ELSE f[k] + SumOver(f, k - 1)

\* C20: after a successful extract_metadata, total_sheets is the number of
\* entries of sheets, total_columns the sum of the sheets' column counts and
\* estimated_total_rows the sum of the sheets' estimated_rows, each
\* estimated_rows being max_row - 1.
C20_Totals ==
    ExtractReturned =>
        LET md == extractor_metadata
            n == Len(md.sheets)
        IN /\ md.statistics.total_sheets = n
           /\ md.statistics.total_columns =
                 SumOver([k \in 1..n |-> Len(md.sheets[k].columns)], n)
           /\ md.statistics.estimated_total_rows =
                 SumOver([k \in 1..n |-> md.sheets[k].estimated_rows], n)
           /\ \A k \in 1..n : md.sheets[k].estimated_rows = workbook[k].max_row - 1

C20_Witness ==
    /\ run_pc = "extracted"
    /\ extractor_metadata.statistics.total_sheets = 2
    /\ extractor_metadata.statistics.total_columns = WideColumns + 1
    /\ extractor_metadata.statistics.estimated_total_rows = LARGE_ROWS + 1
    /\ Len(extractor_metadata.sheets[1].columns) = WideColumns

\* The metadata file of run r1 and of run r2 in metadata_dir 'metadata'.
OwnPath(rid) ==
    IF rid = <<"r", "1">> THEN ExpectedPath
    ELSE <<"m", "e", "t", "a", "d", "a", "t", "a", "/", "r", "2", "_",
           "m", "e", "t", "a", "d", "a", "t", "a", ".", "j", "s", "o", "n">>

\* A metadata dictionary without the time the clock showed.
WithoutTime(md) == [md EXCEPT !.file_info.extraction_time = <<>>]

\* How the first call of an analyzer in state inst has ended, if it has.
SameAsAlone(inst) ==
    /\ (inst.calls = 1 /\ inst.run_pc = "returned") =>
          /\ solo.run_pc = "returned"
          /\ WithoutTime(inst.analyzer_metadata) = WithoutTime(solo.result)
          /\ inst.events = solo.events
    /\ (inst.calls = 1 /\ inst.run_pc = "raised") =>
          /\ solo.run_pc = "raised"
          /\ inst.error = solo.error
          /\ inst.events = solo.events

\* C18: however the steps of two extract_and_save_metadata runs on separate
\* analyzers with distinct run ids interleave, each run writes only its own
\* <run_id>_metadata.json, and each run returns (or raises) what the same
\* run does when executed alone, the clock reading aside.
C18_Isolation ==
    (solo # Pending) =>
        /\ \A k \in 1..Len(writes) : writes[k].path = OwnPath(writes[k].by)
        /\ \A f \in fs.files :
              /\ \E k \in 1..Len(writes) : writes[k].path = f.path
              /\ \E g \in solo.files : g.content.sheets = f.content.sheets
        /\ SameAsAlone(Instance)
        /\ SameAsAlone(parked)

C18_Witness ==
    /\ solo # Pending
    /\ run_id = <<"r", "1">>
    /\ run_pc = "returned" /\ calls = 1
    /\ parked.run_pc = "returned" /\ parked.calls = 1
    /\ Len(writes) = 2
    /\ writes[1].by = <<"r", "2">>
    /\ Cardinality(fs.files) = 2
    /\ Len(events) = 4
    /\ Len(analyzer_metadata.sheets) = 1
    /\ analyzer_metadata.sheets[1].columns[1].rows_sampled >= 1

----------------------------------------------------------------------------
(* Properties of the sampling pass, the events and the chunk iterator *)

\* The loop positions i of range(sample_size) whose row index is within max_row.
Targets == {k \in 0..(sample_size - 1) : RowIdx(k) <= sheet.max_row}

\* C21: the workbook is opened once for all sheets, and in a sheet's
\* sampling pass every target index 2 + i*step is read by exactly one
\* whole-row read call, the row indices of successive read calls strictly
\* increase, and there are at most sample_size read calls.
C21_SinglePass ==
    /\ wb_handle.opens <= 1
    /\ Selected =>
          /\ \A k \in 1..Len(reads) : reads[k] = 2 + ((k - 1) * step)
          /\ \A k \in 1..(Len(reads) - 1) : reads[k] < reads[k + 1]
          /\ Len(reads) <= sample_size
          /\ pc \in {"finalize", "done"} => Len(reads) = Cardinality(Targets)

\* The positions in `events` of the in-loop progress events.
ProgressAt == {k \in 1..Len(events) : events[k].kind = "progress"}

\* C22: a progress event is emitted in the sampling loop only with a
\* callback and sample_size > 100, at exactly the loop positions i that are
\* positive multiples of 100 below the number of iterations; its percent is
\* floor(100*i/sample_size), lies in 0..99 and never decreases within the
\* sheet; a massive-tier sheet emits no progress event.
C22_ProgressEvents ==
    /\ \A k \in ProgressAt :
          /\ callback.given
          /\ sample_size > 100
          /\ events[k].b > 0
          /\ events[k].b % 100 = 0
          /\ events[k].b < sample_size
          /\ events[k].a = (100 * events[k].b) \div sample_size
          /\ events[k].a \in 0..99
    /\ \A k1, k2 \in ProgressAt : k1 < k2 => events[k1].a <= events[k2].a
    /\ (callback.given /\ sample_size > 100 /\ pc \in {"sampling", "finalize", "done"}) =>
          \A m \in 1..((i - 1) \div 100) :
              Cardinality({k \in ProgressAt : events[k].b = 100 * m}) = 1
    /\ sheet.max_row > MASSIVE_ROWS => ProgressAt = {}

\* The data rows of the sheet (the rows below the header), in source order.
DataRows == [r \in 1..Max(0, sheet.last_row - 1) |-> IterRows(sheet, r + 1)[1]]

RECURSIVE Concat(_)
Concat(blocks) == IF blocks = <<>> THEN <<>> ELSE Head(blocks) \o Concat(Tail(blocks))

\* C23: get_chunk_iterator yields the sheet's data rows as consecutive
\* blocks of at most chunk_size rows, in source order, no row dropped,
\* duplicated or changed: once the iteration has ended, it has ended without
\* an exception and the yielded blocks put together are the data rows.
C23_ChunkBlocks ==
    /\ \A k \in 1..Len(yielded) : Len(yielded[k]) \in 1..chunk_size
    /\ pc \in {"raised", "exhausted"} =>
          /\ pc = "exhausted"
          /\ error = "none"
          /\ Concat(yielded) = DataRows

\* C24: a list of values of which a strict majority are booleans (True or
\* False) is classified 'boolean' by _infer_data_type.
C24_BooleanMajority ==
    pc = "inferred" =>
        LET values == column_metadata[1].sample_values
            bools == {k \in 1..Len(values) : values[k].kind = "bool"}
        IN 2 * Cardinality(bools) > Len(values) =>
              column_metadata[1].data_type = "boolean"

\* The distinct strings str(v)[:100] over the non-null values of column c
\* in the sampled rows.
DistinctSampled(c) == {Cut(PyStr(SampledValue(k, c)), STR_CUT) : k \in NonNullReads(c)}

\* C25: in the result, unique_values_count of every column is the number
\* of distinct strings str(v)[:100] over all non-null values of the column in
\* the sampled rows, beyond the first 100 as well; a column of pairwise
\* distinct integers has unique_values_count == rows_sampled.
C25_UniqueCount ==
    pc = "done" =>
        \A c \in Columns :
            /\ sheet_metadata.columns[c].unique_values_count = Cardinality(DistinctSampled(c))
            /\ (\A k \in 1..Len(reads) : Returned(k) =>
                    /\ SampledValue(k, c).kind = "int"
                    /\ SampledValue(k, c).n = reads[k])
               => sheet_metadata.columns[c].unique_values_count = rows_sampled

C25_Witness ==
    /\ pc = "done"
    /\ rows_sampled = DEFAULT_CHUNK_SIZE
    /\ \E c \in Columns :
          /\ sheet_metadata.columns[c].data_type = "numeric"
          /\ sheet_metadata.columns[c].unique_values_count = DEFAULT_CHUNK_SIZE
          /\ Cardinality(DistinctSampled(c)) = DEFAULT_CHUNK_SIZE

\* C26: in the result every column has at most 5 sample_values, the
\* stringified first non-null values of the column in sampled-row order, each
\* cut to at most 100 characters, and at most 10 unique_values_sample
\* entries, each a member of the column's set of unique values; while rows
\* are accumulated the stored list of raw samples never exceeds 100 entries.
C26_FinalizedSamples ==
    /\ pc \in {"sampling", "finalize"} =>
          \A c \in Columns : Len(column_metadata[c].sample_values) <= MAX_STORED
    /\ pc = "done" =>
          \A c \in Columns :
              LET col == sheet_metadata.columns[c]
                  first == FirstNonNull(c, KEEP_SAMPLES)
              IN /\ Len(col.sample_values) <= KEEP_SAMPLES
                 /\ Len(col.sample_values) = Len(first)
                 /\ \A k \in 1..Len(first) :
                        /\ col.sample_values[k] = StrVal(Cut(PyStr(first[k]), STR_CUT))
                        /\ Len(col.sample_values[k].s) <= STR_CUT
                 /\ Len(col.unique_values_sample) <= KEEP_UNIQUE
                 /\ {col.unique_values_sample[k] : k \in 1..Len(col.unique_values_sample)}
                        \subseteq DistinctSampled(c)

C26_Witness ==
    /\ pc = "done"
    /\ \E c \in Columns :
          LET col == sheet_metadata.columns[c]
          IN /\ nonnull_seen[c] > MAX_STORED
             /\ Len(col.sample_values) = KEEP_SAMPLES
             /\ col.unique_values_count > KEEP_UNIQUE
             /\ Len(col.unique_values_sample) = KEEP_UNIQUE
    /\ \E c \in Columns :
          \E k \in 1..Len(FirstNonNull(c, KEEP_SAMPLES)) :
              /\ Len(PyStr(FirstNonNull(c, KEEP_SAMPLES)[k])) > STR_CUT
              /\ Len(sheet_metadata.columns[c].sample_values[k].s) = STR_CUT

\* The most rows a sheet of max_row rows can contribute under chunk_size.
RowBound == Min(Min(chunk_size, Max(0, sheet.max_row - 1)), LARGE_ROWS - 1)

\* C27: for every max_row and every chunk_size >= 0, rows_sampled of every
\* column is at most min(chunk_size, max(0, max_row - 1)) and at most 9,999,
\* and the number of rows read, every per-column sample list and every
\* per-column unique set are no larger than that bound.
C27_BoundedSample ==
    /\ Selected =>
          /\ rows_sampled <= RowBound
          /\ Len(reads) <= RowBound
          /\ pc \in {"sampling", "finalize"} =>
                \A c \in 1..Len(column_metadata) :
                    /\ Len(column_metadata[c].sample_values) <= RowBound
                    /\ Cardinality(column_metadata[c].unique_values_sample) <= RowBound
    /\ pc = "done" =>
          \A c \in Columns :
              /\ sheet_metadata.columns[c].rows_sampled <= RowBound
              /\ sheet_metadata.columns[c].unique_values_count <= RowBound

C27_Witness ==
    /\ pc = "done"
    /\ sheet.max_row > LARGE_ROWS
    /\ rows_sampled = RowBound
    /\ rows_sampled > 0
    /\ \E c \in Columns : sheet_metadata.columns[c].rows_sampled = chunk_size

\* The events of the extract_metadata call last started, its first included.
CurrentCallEvents ==
    LET S == {k \in 1..Len(events) : events[k].kind = "extracting"}
    IN IF S = {} THEN <<>>
       ELSE SubSeq(events, CHOOSE k \in S : \A j \in S : j <= k, Len(events))

\* How many of the first k events of a sequence are of the given kind.
CountKind(evs, kind, k) == Cardinality({j \in 1..k : evs[j].kind = kind})

SheetEventKinds == {"dimensions", "massive", "large", "progress"}

\* C28: with a callback, the events of one extract_metadata call are
\* ordered: 'Extracting metadata' is first and precedes the opening of the
\* workbook; the 'Analyzing sheet k/N' events come in workbook order, each
\* before its sheet's dimension, tier and progress events and after all
\* events of earlier sheets; 'Metadata extracted' is emitted exactly once,
\* last, after the workbook is closed and only when every sheet succeeded.
\* Every event has exactly the keys timestamp, type, content, icon.
C28_EventOrder ==
    callback.given =>
        LET cur == CurrentCallEvents
            N == Len(workbook)
        IN /\ \A k \in 1..Len(events) : events[k].keys = {"timestamp", "type", "content", "icon"}
           /\ CountKind(events, "extracting", Len(events)) = calls
           /\ run_pc = "opening" => Len(cur) = 1 /\ wb_handle.opens = 0
           /\ wb_handle.opens > 0 => Len(cur) >= 1
           /\ \A k \in 2..Len(cur) :
                 LET s == CountKind(cur, "analyzing", k - 1) IN
                 /\ cur[k].kind \in SheetEventKinds \cup {"analyzing", "completed"}
                 /\ k = 2 => cur[k].kind = "analyzing"
                 /\ cur[k].kind = "analyzing" =>
                       /\ cur[k].a = s + 1
                       /\ cur[k].b = N
                       /\ s + 1 <= N
                       /\ wb_handle.opens = 1
                 /\ cur[k].kind = "dimensions" =>
                       /\ cur[k - 1].kind = "analyzing"
                       /\ cur[k].a = workbook[s].max_row
                       /\ cur[k].b = workbook[s].max_column
                 /\ cur[k].kind \in {"massive", "large"} =>
                       /\ cur[k - 1].kind = "dimensions"
                       /\ workbook[s].max_row > LARGE_ROWS
                 /\ cur[k].kind = "progress" =>
                       /\ cur[k - 1].kind \in {"dimensions", "massive", "large", "progress"}
                       /\ cur[k].b < Min(chunk_size, workbook[s].max_row - 1)
                 /\ cur[k].kind = "completed" =>
                       /\ k = Len(cur)
                       /\ s = N
                       /\ sheet_idx = N
                       /\ Len(metadata.sheets) = N
                       /\ pc = "idle"
                       /\ wb_handle = [opens |-> 1, open |-> FALSE]
           /\ ExtractReturned => cur[Len(cur)].kind = "completed"
           /\ SheetFailed => CountKind(cur, "completed", Len(cur)) = 0

C28_Witness ==
    /\ callback.given
    /\ run_pc = "extracted"
    /\ calls = 2
    /\ Len(workbook) = 2
    /\ LET cur == CurrentCallEvents IN
         /\ cur[Len(cur)].kind = "completed"
         /\ CountKind(cur, "analyzing", Len(cur)) = 2
         /\ CountKind(cur, "large", Len(cur)) = 1
         /\ CountKind(cur, "progress", Len(cur)) = 2
         /\ \E k \in 1..Len(cur) :
               /\ cur[k].kind = "progress"
               /\ CountKind(cur, "analyzing", k) = 1

\* A metadata dictionary without the time the clock showed and without the
\* order in which list() enumerated the sets of unique values.
WithoutEnumeration(md) ==
    [WithoutTime(md) EXCEPT
        !.sheets = [k \in 1..Len(md.sheets) |->
            [md.sheets[k] EXCEPT
                !.columns = [c \in 1..Len(md.sheets[k].columns) |->
                    [md.sheets[k].columns[c] EXCEPT !.unique_values_sample = <<>>]]]]]

\* The lists list(set)[:10] can be for the unique values of column c.
Enumerations(c) == {ListOfSetPrefix(DistinctSampled(c), KEEP_UNIQUE, r) : r \in BOOLEAN}

C30_TotalSelection ==
    /\ pc # "raised"
    /\ error = "none"
    /\ Selected =>
          /\ sample_size >= 0
          /\ step >= 1
    /\ (pc = "done" /\ chunk_size = 0) =>
          /\ rows_sampled = 0
          /\ \A c \in Columns : sheet_metadata.columns[c].rows_sampled = 0

====
